---- MODULE Spec2Model ----
(***************************************************************************)
(* Model of the polymarket-copytrade rebalancing control loop:             *)
(*   src/src/state.rs      TradingState and its mutators                   *)
(*   src/src/engine.rs     compute_weights / compute_target_state /        *)
(*                         compute_orders                                  *)
(*   src/src/executor.rs   execute_orders / check_resting_orders           *)
(*   src/src/api.rs        the data source and the price oracle            *)
(*   src/src/bin/copytrade.rs   main (startup, polling loop, shutdown)     *)
(*                                                                         *)
(* f64 quantities (USD, shares, prices, weights) are modelled as exact     *)
(* rationals <<numerator, denominator>> in lowest terms, denominator > 0.  *)
(* Rounding error of the floating-point unit is not modelled.              *)
(***************************************************************************)
EXTENDS Integers, Sequences, FiniteSets, TLC

\* ------------------------------------------------------------------------
\* Bounds of the model
\* ------------------------------------------------------------------------

\* Number of trades the target trader makes during a run.
MaxTrades == 1

\* Number of orders the venue accepts during a run; every later post fails.
MaxPosted == 1

\* ------------------------------------------------------------------------
\* Exact rational arithmetic standing for f64
\* ------------------------------------------------------------------------

RECURSIVE GCD(_, _)
GCD(a, b) == IF b = 0 THEN a ELSE GCD(b, a % b)

Abs(n) == IF n < 0 THEN -n ELSE n

\* The rational n/d in lowest terms (d # 0).
R(n, d) ==
    LET s == IF d < 0 THEN -1 ELSE 1
        g == GCD(Abs(n), Abs(d))
    IN  <<(s * n) \div g, (s * d) \div g>>

Zero == <<0, 1>>
One  == <<1, 1>>

\* The operations divide by common factors before they multiply, to keep
\* the intermediate integers small.
Add(x, y) ==
    LET g == GCD(x[2], y[2])
    IN  R(x[1] * (y[2] \div g) + y[1] * (x[2] \div g), (x[2] \div g) * y[2])
Neg(x)    == <<-x[1], x[2]>>
Sub(x, y) == Add(x, Neg(y))
Mul(x, y) ==
    LET g1 == GCD(Abs(x[1]), y[2])
        g2 == GCD(Abs(y[1]), x[2])
    IN  R((x[1] \div g1) * (y[1] \div g2), (x[2] \div g2) * (y[2] \div g1))
\* x / y for y # 0.
Div(x, y) == Mul(x, R(y[2], y[1]))

Lt(x, y) ==
    LET g == GCD(x[2], y[2])
    IN  x[1] * (y[2] \div g) < y[1] * (x[2] \div g)
Le(x, y) ==
    LET g == GCD(x[2], y[2])
    IN  x[1] * (y[2] \div g) <= y[1] * (x[2] \div g)
Gt(x, y) == Lt(y, x)
Ge(x, y) == Le(y, x)
Min(x, y) == IF Le(x, y) THEN x ELSE y

\* Decimal::trunc_with_scale(2) of a non-negative value: the digits after
\* the second decimal place are dropped.
TruncScale2(x) == R((x[1] * 100) \div x[2], 100)

RECURSIVE SumSeq(_)
SumSeq(s) == IF s = <<>> THEN Zero ELSE Add(Head(s), SumSeq(Tail(s)))

\* ------------------------------------------------------------------------
\* TradingState (state.rs)
\* ------------------------------------------------------------------------

\* Minimum order value in USD.
MIN_ORDER_USD == One

\* HashMap::new
EmptyMap == [a \in {} |-> Zero]

\* TradingState::new
New(budget) ==
    [ holdings            |-> EmptyMap,
      resting_orders      |-> << >>,
      initial_budget      |-> budget,
      budget_remaining    |-> budget,
      total_spent         |-> Zero,
      total_sell_proceeds |-> Zero,
      realized_pnl        |-> Zero,
      total_events        |-> 0,
      total_orders        |-> 0,
      total_buy_orders    |-> 0,
      total_sell_orders   |-> 0 ]

\* The holdings map with one entry inserted or replaced.
Insert(holdings, asset, held) ==
    [a \in DOMAIN holdings \cup {asset} |->
        IF a = asset THEN held ELSE holdings[a]]

\* The holdings map with one entry removed.
Remove(holdings, asset) ==
    [a \in DOMAIN holdings \ {asset} |-> holdings[a]]

\* The sum of f[x] over the elements x of S.
RECURSIVE SumOn(_, _)
SumOn(f, S) ==
    IF S = {} THEN Zero
    ELSE LET x == CHOOSE y \in S : TRUE
         IN  Add(f[x], SumOn(f, S \ {x}))

\* TradingState::effective_capital
EffectiveCapital(s, prices) ==
    LET HoldingValue(asset) ==
            LET price == IF asset \in DOMAIN prices THEN prices[asset]
                         ELSE s.holdings[asset].avg_cost
            IN  Mul(s.holdings[asset].shares, price)
        IsBuy(r) == r.side = "Buy"
        RestingValue(r) ==
            LET price == IF r.asset \in DOMAIN prices THEN prices[r.asset]
                         ELSE r.price
            IN  Mul(r.shares, price)
        holdings_value ==
            SumOn([a \in DOMAIN s.holdings |-> HoldingValue(a)], DOMAIN s.holdings)
        buys == SelectSeq(s.resting_orders, IsBuy)
        resting_buy_value ==
            SumSeq([i \in 1..Len(buys) |-> RestingValue(buys[i])])
    IN  Add(Add(s.budget_remaining, holdings_value), resting_buy_value)

\* TradingState::effective_held_shares with holdings alone (no resting
\* order adjustment).
EffectiveHeldSharesHoldingsOnly(s, asset) ==
    IF asset \in DOMAIN s.holdings THEN s.holdings[asset].shares ELSE Zero

\* TradingState::effective_held_shares
EffectiveHeldShares(s, asset) ==
    LET held == IF asset \in DOMAIN s.holdings
                THEN s.holdings[asset].shares ELSE Zero
        IsBuy(r)  == r.asset = asset /\ r.side = "Buy"
        IsSell(r) == r.asset = asset /\ r.side = "Sell"
        buys  == SelectSeq(s.resting_orders, IsBuy)
        sells == SelectSeq(s.resting_orders, IsSell)
        resting_buy  == SumSeq([i \in 1..Len(buys) |-> buys[i].shares])
        resting_sell == SumSeq([i \in 1..Len(sells) |-> sells[i].shares])
    IN  Sub(Add(held, resting_buy), resting_sell)

\* TradingState::add_resting_order without the budget reservation.
AddRestingOrderNoReserve(s, order) ==
    [s EXCEPT !.resting_orders = Append(@, order)]

\* TradingState::add_resting_order
AddRestingOrder(s, order) ==
    LET s1 == IF order.side = "Buy"
              THEN [s EXCEPT !.budget_remaining = Sub(@, order.cost_usd)]
              ELSE s
    IN  [s1 EXCEPT !.resting_orders = Append(@, order)]

\* Index of the first resting order with the given id, 0 if there is none.
Position(resting_orders, order_id) ==
    IF \E i \in 1..Len(resting_orders) : resting_orders[i].order_id = order_id
    THEN CHOOSE i \in 1..Len(resting_orders) :
            /\ resting_orders[i].order_id = order_id
            /\ \A j \in 1..(i - 1) : resting_orders[j].order_id # order_id
    ELSE 0

\* Vec::remove(idx)
RemoveAt(seq, idx) ==
    SubSeq(seq, 1, idx - 1) \o SubSeq(seq, idx + 1, Len(seq))

\* The Buy arm shared by resolve_resting_fill and apply_orders: upsert the
\* position and add the fill to it.
BuyInto(holdings, asset, shares, cost) ==
    LET old == IF asset \in DOMAIN holdings THEN holdings[asset]
               ELSE [shares |-> Zero, total_cost |-> Zero, avg_cost |-> Zero]
        new_shares == Add(old.shares, shares)
        new_cost   == Add(old.total_cost, cost)
    IN  Insert(holdings, asset,
               [ shares     |-> new_shares,
                 total_cost |-> new_cost,
                 avg_cost   |-> IF Gt(new_shares, Zero)
                                THEN Div(new_cost, new_shares) ELSE Zero ])

\* The Sell arm shared by resolve_resting_fill and apply_orders: reduce the
\* position and remove it when no shares are left.
SellFrom(holdings, asset, shares) ==
    IF asset \in DOMAIN holdings
    THEN LET held == holdings[asset]
             new_shares == Sub(held.shares, shares)
         IN  IF Le(new_shares, Zero)
             THEN Remove(holdings, asset)
             ELSE Insert(holdings, asset,
                         [held EXCEPT !.shares = new_shares,
                                      !.total_cost = Sub(@, Mul(held.avg_cost, shares))])
    ELSE holdings

\* Realized P&L of selling shares of a held asset at price.
SellPnl(holdings, asset, shares, price) ==
    IF asset \in DOMAIN holdings
    THEN Mul(Sub(price, holdings[asset].avg_cost), shares)
    ELSE Zero

\* TradingState::resolve_resting_fill keeping the reservation of a Buy as
\* its cost: the difference to the actual cost is not returned.
ResolveRestingFillAsReserved(s, order_id, filled_shares, fill_price) ==
    LET idx == Position(s.resting_orders, order_id)
    IN  IF idx = 0 THEN s
        ELSE
        LET resting     == s.resting_orders[idx]
            filled_cost == Mul(filled_shares, fill_price)
            s1 == [s EXCEPT !.resting_orders = RemoveAt(@, idx)]
            s2 == IF resting.side = "Buy"
                  THEN [s1 EXCEPT
                          !.budget_remaining = @,
                          !.total_spent      = Add(@, filled_cost),
                          !.total_buy_orders = @ + 1,
                          !.holdings = BuyInto(@, resting.asset, filled_shares, filled_cost)]
                  ELSE [s1 EXCEPT
                          !.budget_remaining    = Add(@, filled_cost),
                          !.total_sell_proceeds = Add(@, filled_cost),
                          !.total_sell_orders   = @ + 1,
                          !.realized_pnl = Add(@, SellPnl(s1.holdings, resting.asset,
                                                          filled_shares, fill_price)),
                          !.holdings = SellFrom(@, resting.asset, filled_shares)]
        IN  [s2 EXCEPT !.total_orders = @ + 1]

\* TradingState::resolve_resting_fill
ResolveRestingFill(s, order_id, filled_shares, fill_price) ==
    LET idx == Position(s.resting_orders, order_id)
    IN  IF idx = 0 THEN s
        ELSE
        LET resting     == s.resting_orders[idx]
            filled_cost == Mul(filled_shares, fill_price)
            s1 == [s EXCEPT !.resting_orders = RemoveAt(@, idx)]
            s2 == IF resting.side = "Buy"
                  THEN [s1 EXCEPT
                          !.budget_remaining = Add(@, Sub(resting.cost_usd, filled_cost)),
                          !.total_spent      = Add(@, filled_cost),
                          !.total_buy_orders = @ + 1,
                          !.holdings = BuyInto(@, resting.asset, filled_shares, filled_cost)]
                  ELSE [s1 EXCEPT
                          !.budget_remaining    = Add(@, filled_cost),
                          !.total_sell_proceeds = Add(@, filled_cost),
                          !.total_sell_orders   = @ + 1,
                          !.realized_pnl = Add(@, SellPnl(s1.holdings, resting.asset,
                                                          filled_shares, fill_price)),
                          !.holdings = SellFrom(@, resting.asset, filled_shares)]
        IN  [s2 EXCEPT !.total_orders = @ + 1]

\* TradingState::resolve_resting_cancel refunding the cost of the order
\* whatever its side.
ResolveRestingCancelRefundAll(s, order_id) ==
    LET idx == Position(s.resting_orders, order_id)
    IN  IF idx = 0 THEN s
        ELSE
        LET resting == s.resting_orders[idx]
            s1 == [s EXCEPT !.resting_orders = RemoveAt(@, idx)]
        IN  [s1 EXCEPT !.budget_remaining = Add(@, resting.cost_usd)]

\* TradingState::resolve_resting_cancel without the refund of a Buy.
ResolveRestingCancelNoRefund(s, order_id) ==
    LET idx == Position(s.resting_orders, order_id)
    IN  IF idx = 0 THEN s
        ELSE
        LET resting == s.resting_orders[idx]
            s1 == [s EXCEPT !.resting_orders = RemoveAt(@, idx)]
        IN  IF resting.side = "Buy"
            THEN s1
            ELSE s1

\* TradingState::resolve_resting_cancel
ResolveRestingCancel(s, order_id) ==
    LET idx == Position(s.resting_orders, order_id)
    IN  IF idx = 0 THEN s
        ELSE
        LET resting == s.resting_orders[idx]
            s1 == [s EXCEPT !.resting_orders = RemoveAt(@, idx)]
        IN  IF resting.side = "Buy"
            THEN [s1 EXCEPT !.budget_remaining = Add(@, resting.cost_usd)]
            ELSE s1

\* One iteration of the loop of TradingState::apply_orders.
ApplyOrder(s, order) ==
    LET s1 == IF order.side = "Buy"
              THEN [s EXCEPT
                      !.budget_remaining = Sub(@, order.cost_usd),
                      !.total_spent      = Add(@, order.cost_usd),
                      !.total_buy_orders = @ + 1,
                      !.holdings = BuyInto(@, order.asset, order.shares, order.cost_usd)]
              ELSE [s EXCEPT
                      !.budget_remaining    = Add(@, order.cost_usd),
                      !.total_sell_proceeds = Add(@, order.cost_usd),
                      !.total_sell_orders   = @ + 1,
                      !.realized_pnl = Add(@, SellPnl(s.holdings, order.asset,
                                                      order.shares, order.price)),
                      !.holdings = SellFrom(@, order.asset, order.shares)]
    IN  [s1 EXCEPT !.total_orders = @ + 1]

\* TradingState::apply_orders
RECURSIVE ApplyOrders(_, _)
ApplyOrders(s, orders) ==
    IF orders = <<>> THEN s
    ELSE ApplyOrders(ApplyOrder(s, Head(orders)), Tail(orders))

\* TradingState::exit_summary: the profit and loss figures of the summary.
\* An asset without a price in latest_prices is valued at 0.
ExitSummaryOf(s, latest_prices) ==
    LET CurPrice(a) == IF a \in DOMAIN latest_prices THEN latest_prices[a]
                       ELSE Zero
        Unrealized(a) == Mul(Sub(CurPrice(a), s.holdings[a].avg_cost),
                             s.holdings[a].shares)
        unrealized_pnl ==
            SumOn([a \in DOMAIN s.holdings |-> Unrealized(a)], DOMAIN s.holdings)
        total_pnl == Add(s.realized_pnl, unrealized_pnl)
    IN  [ initial_budget   |-> s.initial_budget,
          budget_remaining |-> s.budget_remaining,
          realized_pnl     |-> s.realized_pnl,
          unrealized_pnl   |-> unrealized_pnl,
          total_pnl        |-> total_pnl,
          pnl_percent      |-> IF Gt(s.initial_budget, Zero)
                               THEN Mul(Div(total_pnl, s.initial_budget), R(100, 1))
                               ELSE Zero ]

\* ------------------------------------------------------------------------
\* Allocation engine (engine.rs)
\* ------------------------------------------------------------------------

\* compute_weights: positions is a sequence of [asset, current_value,
\* cur_price]; the result a sequence of [asset, weight, cur_price].
ComputeWeights(positions) ==
    LET total_value ==
            SumSeq([i \in 1..Len(positions) |-> positions[i].current_value])
    IN  IF Le(total_value, Zero) THEN << >>
        ELSE [i \in 1..Len(positions) |->
                [ asset     |-> positions[i].asset,
                  weight    |-> Div(positions[i].current_value, total_value),
                  cur_price |-> positions[i].cur_price ]]

\* compute_target_state without the copy percentage.
ComputeTargetStateFullCopy(weights, budget, copy_pct, max_trade_pct) ==
    LET max_per_market == Mul(max_trade_pct, budget)
    IN  [i \in 1..Len(weights) |->
            LET target_usd == Min(Mul(weights[i].weight, budget), max_per_market)
            IN  [ asset            |-> weights[i].asset,
                  trader_weight    |-> weights[i].weight,
                  target_value_usd |-> target_usd,
                  target_shares    |-> IF Gt(weights[i].cur_price, Zero)
                                       THEN Div(target_usd, weights[i].cur_price)
                                       ELSE Zero,
                  cur_price        |-> weights[i].cur_price ]]

\* compute_target_state without the per-market cap.
ComputeTargetStateUncapped(weights, budget, copy_pct, max_trade_pct) ==
    [i \in 1..Len(weights) |->
        LET target_usd == Mul(Mul(weights[i].weight, budget), copy_pct)
        IN  [ asset            |-> weights[i].asset,
              trader_weight    |-> weights[i].weight,
              target_value_usd |-> target_usd,
              target_shares    |-> IF Gt(weights[i].cur_price, Zero)
                                   THEN Div(target_usd, weights[i].cur_price)
                                   ELSE Zero,
              cur_price        |-> weights[i].cur_price ]]

\* compute_target_state
ComputeTargetState(weights, budget, copy_pct, max_trade_pct) ==
    LET max_per_market == Mul(max_trade_pct, budget)
    IN  [i \in 1..Len(weights) |->
            LET raw_target == Mul(Mul(weights[i].weight, budget), copy_pct)
                target_usd == Min(raw_target, max_per_market)
            IN  [ asset            |-> weights[i].asset,
                  trader_weight    |-> weights[i].weight,
                  target_value_usd |-> target_usd,
                  target_shares    |-> IF Gt(weights[i].cur_price, Zero)
                                       THEN Div(target_usd, weights[i].cur_price)
                                       ELSE Zero,
                  cur_price        |-> weights[i].cur_price ]]

\* The held shares compute_orders compares a target against.
HeldForDiff(s, asset) == EffectiveHeldShares(s, asset)

\* compute_orders, first loop, queueing a Buy whatever its notional value.
TargetBuyNoMinimum(target, s) ==
    LET diff == Sub(target.target_shares, HeldForDiff(s, target.asset))
        cost == Mul(diff, target.cur_price)
    IN  IF Gt(diff, Zero)
        THEN << [ asset |-> target.asset, side |-> "Buy", shares |-> diff,
                  price |-> target.cur_price, cost_usd |-> cost ] >>
        ELSE << >>

\* compute_orders, first loop: the Buy queued for one target, <<>> if none.
TargetBuy(target, s) ==
    LET diff == Sub(target.target_shares, HeldForDiff(s, target.asset))
        cost == Mul(diff, target.cur_price)
    IN  IF Gt(diff, Zero) /\ Ge(cost, MIN_ORDER_USD)
        THEN << [ asset |-> target.asset, side |-> "Buy", shares |-> diff,
                  price |-> target.cur_price, cost_usd |-> cost ] >>
        ELSE << >>

\* compute_orders, first loop: the Sell queued for one target, <<>> if none.
TargetSell(target, s) ==
    LET diff == Sub(target.target_shares, HeldForDiff(s, target.asset))
        sell_shares == Neg(diff)
    IN  IF Lt(diff, Zero)
        THEN << [ asset |-> target.asset, side |-> "Sell", shares |-> sell_shares,
                  price |-> target.cur_price,
                  cost_usd |-> Mul(sell_shares, target.cur_price) ] >>
        ELSE << >>

RECURSIVE TargetBuys(_, _)
TargetBuys(targets, s) ==
    IF targets = << >> THEN << >>
    ELSE TargetBuy(Head(targets), s) \o TargetBuys(Tail(targets), s)

RECURSIVE TargetSells(_, _)
TargetSells(targets, s) ==
    IF targets = << >> THEN << >>
    ELSE TargetSell(Head(targets), s) \o TargetSells(Tail(targets), s)

\* The exit Sell of one held asset, falling back on the average cost of
\* the holding when the asset has no price.
ExitSellGuessPrice(asset, s, target_assets, price_map) ==
    IF asset \notin target_assets /\ Gt(s.holdings[asset].shares, Zero)
    THEN LET effective == EffectiveHeldShares(s, asset)
             price == IF asset \in DOMAIN price_map THEN price_map[asset]
                      ELSE s.holdings[asset].avg_cost
         IN  IF Le(effective, Zero) THEN << >>
             ELSE << [ asset |-> asset, side |-> "Sell", shares |-> effective,
                       price |-> price, cost_usd |-> Mul(effective, price) ] >>
    ELSE << >>

\* The exit Sell of one held asset priced at the average cost of the
\* holding instead of the market price.
ExitSellAtAvgCost(asset, s, target_assets, price_map) ==
    IF asset \notin target_assets /\ Gt(s.holdings[asset].shares, Zero)
    THEN LET effective == EffectiveHeldShares(s, asset)
             price == s.holdings[asset].avg_cost
         IN  IF Le(effective, Zero) THEN << >>
             ELSE << [ asset |-> asset, side |-> "Sell", shares |-> effective,
                       price |-> price, cost_usd |-> Mul(effective, price) ] >>
    ELSE << >>

\* compute_orders, second loop body: the exit Sell of one held asset, <<>>
\* if the asset is a target, is covered by a resting sell or has no price.
ExitSell(asset, s, target_assets, price_map) ==
    IF asset \notin target_assets /\ Gt(s.holdings[asset].shares, Zero)
    THEN LET effective == EffectiveHeldShares(s, asset)
         IN  IF Le(effective, Zero) THEN << >>
             ELSE IF asset \notin DOMAIN price_map THEN << >>
             ELSE << [ asset |-> asset, side |-> "Sell", shares |-> effective,
                       price |-> price_map[asset],
                       cost_usd |-> Mul(effective, price_map[asset]) ] >>
    ELSE << >>

\* compute_orders, second loop; held_order is the order in which the
\* HashMap iterates over the holdings.
RECURSIVE ExitSells(_, _, _, _)
ExitSells(held_order, s, target_assets, price_map) ==
    IF held_order = << >> THEN << >>
    ELSE ExitSell(Head(held_order), s, target_assets, price_map)
         \o ExitSells(Tail(held_order), s, target_assets, price_map)

\* compute_orders, last loop, without the budget cap.
CapBuysUncapped(buys, available) == buys

\* compute_orders, last loop, going on to the next buys with the amount
\* it had before the downsized buy.
RECURSIVE CapBuysKeepGoing(_, _)
CapBuysKeepGoing(buys, available) ==
    IF buys = << >> THEN << >>
    ELSE IF Lt(available, MIN_ORDER_USD) THEN << >>
    ELSE LET buy == Head(buys)
         IN  IF Le(buy.cost_usd, available)
             THEN <<buy>> \o CapBuysKeepGoing(Tail(buys), Sub(available, buy.cost_usd))
             ELSE LET affordable_shares == Div(available, buy.price)
                      cost == Mul(affordable_shares, buy.price)
                  IN  IF Ge(cost, MIN_ORDER_USD)
                      THEN << [buy EXCEPT !.shares = affordable_shares,
                                          !.cost_usd = cost] >>
                           \o CapBuysKeepGoing(Tail(buys), available)
                      ELSE CapBuysKeepGoing(Tail(buys), available)

\* compute_orders, last loop: the buys capped by the available budget.
RECURSIVE CapBuys(_, _)
CapBuys(buys, available) ==
    IF buys = << >> THEN << >>
    ELSE IF Lt(available, MIN_ORDER_USD) THEN << >>
    ELSE LET buy == Head(buys)
         IN  IF Le(buy.cost_usd, available)
             THEN <<buy>> \o CapBuys(Tail(buys), Sub(available, buy.cost_usd))
             ELSE LET affordable_shares == Div(available, buy.price)
                      cost == Mul(affordable_shares, buy.price)
                  IN  IF Ge(cost, MIN_ORDER_USD)
                      THEN << [buy EXCEPT !.shares = affordable_shares,
                                          !.cost_usd = cost] >>
                           \o CapBuys(Tail(buys), Sub(available, cost))
                      ELSE CapBuys(Tail(buys), available)

\* compute_orders, assembling the output with the buys first.
AssembleBuysFirst(sells, buys, budget_remaining) ==
    LET proceeds == SumSeq([i \in 1..Len(sells) |-> sells[i].cost_usd])
    IN  CapBuys(buys, Add(budget_remaining, proceeds)) \o sells

\* compute_orders, the buys capped by the budget alone, the proceeds of
\* the sells left out.
AssembleNoProceeds(sells, buys, budget_remaining) ==
    sells \o CapBuys(buys, budget_remaining)

\* compute_orders, lines 179-212: all sells, then the capped buys.
Assemble(sells, buys, budget_remaining) ==
    LET proceeds == SumSeq([i \in 1..Len(sells) |-> sells[i].cost_usd])
    IN  sells \o CapBuys(buys, Add(budget_remaining, proceeds))

\* compute_orders
ComputeOrders(targets, s, budget_remaining, price_map, held_order) ==
    LET target_assets == {targets[i].asset : i \in 1..Len(targets)}
        sells == TargetSells(targets, s)
                 \o ExitSells(held_order, s, target_assets, price_map)
        buys  == TargetBuys(targets, s)
    IN  Assemble(sells, buys, budget_remaining)

\* ------------------------------------------------------------------------
\* Reconciliation of execution results (state.rs)
\* ------------------------------------------------------------------------

\* apply_execution_results, first pass: the order synthesized from the
\* filled portion of one result (order_index counts from 1 here).
FilledOrder(orders, r) ==
    LET original == orders[r.order_index]
    IN  [ asset    |-> original.asset,
          side     |-> original.side,
          shares   |-> r.filled_shares,
          price    |-> IF Gt(r.filled_shares, Zero)
                       THEN Div(r.filled_cost_usd, r.filled_shares)
                       ELSE original.price,
          cost_usd |-> r.filled_cost_usd ]

\* apply_execution_results, second pass, one result, registering the whole
\* order (not the remainder) after a partial fill.
TrackRestingWholeOrder(s, orders, result) ==
    IF result.order_index \notin 1..Len(orders) THEN s
    ELSE
    LET original == orders[result.order_index]
    IN  IF result.status \in {"Resting", "PartialFill"}
        THEN AddRestingOrder(s, [ order_id |-> result.order_id,
                                  asset    |-> original.asset,
                                  side     |-> original.side,
                                  shares   |-> original.shares,
                                  price    |-> original.price,
                                  cost_usd |-> original.cost_usd ])
        ELSE s

\* apply_execution_results, second pass, one result, tracking as resting
\* also an order that failed after the venue gave it an id.
TrackRestingAlsoFailed(s, orders, result) ==
    IF result.order_index \notin 1..Len(orders) THEN s
    ELSE
    LET original == orders[result.order_index]
    IN  CASE result.status = "Resting"
               \/ (result.status = "Failed" /\ result.order_id # 0) ->
               AddRestingOrder(s, [ order_id |-> result.order_id,
                                    asset    |-> original.asset,
                                    side     |-> original.side,
                                    shares   |-> original.shares,
                                    price    |-> original.price,
                                    cost_usd |-> original.cost_usd ])
          [] result.status = "PartialFill" ->
               LET remaining_shares == Sub(original.shares, result.filled_shares)
               IN  IF Gt(remaining_shares, Zero) /\ result.order_id # 0
                   THEN AddRestingOrder(s,
                           [ order_id |-> result.order_id,
                             asset    |-> original.asset,
                             side     |-> original.side,
                             shares   |-> remaining_shares,
                             price    |-> original.price,
                             cost_usd |-> Mul(remaining_shares, original.price) ])
                   ELSE s
          [] OTHER -> s

\* apply_execution_results, second pass, one result, registering nothing
\* for a partial fill: the remainder is left on the book untracked.
TrackRestingNoRemainder(s, orders, result) ==
    IF result.order_index \notin 1..Len(orders) THEN s
    ELSE
    LET original == orders[result.order_index]
    IN  CASE result.status = "Resting" ->
               AddRestingOrder(s, [ order_id |-> result.order_id,
                                    asset    |-> original.asset,
                                    side     |-> original.side,
                                    shares   |-> original.shares,
                                    price    |-> original.price,
                                    cost_usd |-> original.cost_usd ])
          [] OTHER -> s

\* apply_execution_results, second pass, one result: register the resting
\* order or the unfilled remainder.
TrackResting(s, orders, result) ==
    IF result.order_index \notin 1..Len(orders) THEN s
    ELSE
    LET original == orders[result.order_index]
    IN  CASE result.status = "Resting" ->
               AddRestingOrder(s, [ order_id |-> result.order_id,
                                    asset    |-> original.asset,
                                    side     |-> original.side,
                                    shares   |-> original.shares,
                                    price    |-> original.price,
                                    cost_usd |-> original.cost_usd ])
          [] result.status = "PartialFill" ->
               LET remaining_shares == Sub(original.shares, result.filled_shares)
               IN  IF Gt(remaining_shares, Zero) /\ result.order_id # 0
                   THEN AddRestingOrder(s,
                           [ order_id |-> result.order_id,
                             asset    |-> original.asset,
                             side     |-> original.side,
                             shares   |-> remaining_shares,
                             price    |-> original.price,
                             cost_usd |-> Mul(remaining_shares, original.price) ])
                   ELSE s
          [] OTHER -> s

RECURSIVE TrackAll(_, _, _)
TrackAll(s, orders, results) ==
    IF results = << >> THEN s
    ELSE TrackAll(TrackResting(s, orders, Head(results)), orders, Tail(results))

\* TradingState::apply_execution_results without its first pass: the
\* fills are not applied.
ApplyExecutionResultsTrackOnly(s, orders, results) ==
    TrackAll(s, orders, results)

\* TradingState::apply_execution_results
ApplyExecutionResults(s, orders, results) ==
    LET IsFill(r) == /\ r.status \in {"Filled", "PartialFill"}
                     /\ r.order_index \in 1..Len(orders)
        fills == SelectSeq(results, IsFill)
        filled_orders == [i \in 1..Len(fills) |-> FilledOrder(orders, fills[i])]
    IN  TrackAll(ApplyOrders(s, filled_orders), orders, results)

\* ------------------------------------------------------------------------
\* Executor (executor.rs)
\* ------------------------------------------------------------------------

\* Maximum retry attempts for transient errors.
MAX_RETRIES == 3

\* Base delay for exponential backoff, in milliseconds.
BASE_BACKOFF == 500

\* What one pass of the loop of build_sign_post_with_retry may meet: the
\* post answered ("ok"), the post failed with a transient or with another
\* error ("transient", "fatal"), or the order could not be built or signed
\* ("build").
PostOutcomes == {"ok", "transient", "fatal", "build"}

\* build_sign_post_with_retry retrying after any error of post_order.
RECURSIVE PostWithRetryAnyError(_, _)
PostWithRetryAnyError(attempts, attempt) ==
    IF attempt >= MAX_RETRIES
    THEN [ok |-> FALSE, attempts |-> attempt, sleeps |-> << >>]
    ELSE CASE attempts[attempt + 1] = "ok" ->
                [ok |-> TRUE, attempts |-> attempt + 1, sleeps |-> << >>]
           [] attempts[attempt + 1] \in {"transient", "fatal"}
                  /\ attempt + 1 < MAX_RETRIES ->
                LET rest == PostWithRetryAnyError(attempts, attempt + 1)
                IN  [rest EXCEPT !.sleeps = << BASE_BACKOFF * 2^attempt >> \o @]
           [] OTHER ->
                [ok |-> FALSE, attempts |-> attempt + 1, sleeps |-> << >>]

\* build_sign_post_with_retry: attempts is the sequence of what each pass
\* of the loop would meet (an element of PostOutcomes); the result says
\* whether a response was obtained, how many passes were made and the
\* delays slept between them.
RECURSIVE PostWithRetry(_, _)
PostWithRetry(attempts, attempt) ==
    IF attempt >= MAX_RETRIES
    THEN [ok |-> FALSE, attempts |-> attempt, sleeps |-> << >>]
    ELSE CASE attempts[attempt + 1] = "ok" ->
                [ok |-> TRUE, attempts |-> attempt + 1, sleeps |-> << >>]
           [] attempts[attempt + 1] = "transient" /\ attempt + 1 < MAX_RETRIES ->
                LET rest == PostWithRetry(attempts, attempt + 1)
                IN  [rest EXCEPT !.sleeps = << BASE_BACKOFF * 2^attempt >> \o @]
           [] OTHER ->
                [ok |-> FALSE, attempts |-> attempt + 1, sleeps |-> << >>]

\* An ExecutionResult.  order_id 0 stands for the empty string.
Result(index, status, order_id, filled_shares, filled_cost_usd, error_msg) ==
    [ order_index     |-> index,
      status          |-> status,
      order_id        |-> order_id,
      filled_shares   |-> filled_shares,
      filled_cost_usd |-> filled_cost_usd,
      error_msg       |-> error_msg ]

\* execute_single_order after a successful post, without the arm for
\* Canceled and Unmatched: such a reply falls to the optimistic arm.
ClassifyStatusNoCancelArm(index, order, order_id, reply) ==
    LET shares        == TruncScale2(order.shares)
        optimistic    == Mul(shares, order.price)
        size_matched  == reply.size_matched
        filled_cost   == Mul(size_matched, reply.price)
    IN  IF ~reply.ok
        THEN Result(index, "Filled", order_id, shares, optimistic, "status check failed")
        ELSE CASE reply.status = "Matched" ->
                    Result(index, "Filled", order_id, size_matched, filled_cost, "")
               [] reply.status = "Live" ->
                    IF Gt(size_matched, Zero)
                    THEN Result(index, "PartialFill", order_id, size_matched, filled_cost, "")
                    ELSE Result(index, "Resting", order_id, Zero, Zero, "")
               [] OTHER ->
                    Result(index, "Filled", order_id, shares, optimistic, "")

\* execute_single_order after a successful post that was not matched at
\* once: the classification of the status reply.  reply.ok is FALSE when
\* the status query failed.
ClassifyStatus(index, order, order_id, reply) ==
    LET shares        == TruncScale2(order.shares)
        optimistic    == Mul(shares, order.price)
        size_matched  == reply.size_matched
        filled_cost   == Mul(size_matched, reply.price)
    IN  IF ~reply.ok
        THEN Result(index, "Filled", order_id, shares, optimistic, "status check failed")
        ELSE CASE reply.status = "Matched" ->
                    Result(index, "Filled", order_id, size_matched, filled_cost, "")
               [] reply.status = "Live" ->
                    IF Gt(size_matched, Zero)
                    THEN Result(index, "PartialFill", order_id, size_matched, filled_cost, "")
                    ELSE Result(index, "Resting", order_id, Zero, Zero, "")
               [] reply.status \in {"Canceled", "Unmatched"} ->
                    IF Gt(size_matched, Zero)
                    THEN Result(index, "PartialFill", order_id, size_matched, filled_cost, "")
                    ELSE Result(index, "Failed", order_id, Zero, Zero, "order cancelled")
               [] OTHER ->
                    Result(index, "Filled", order_id, shares, optimistic, "")

\* execute_single_order: post is "error" (no response after the retries),
\* "rejected" (success = false), "matched" (matched at post time) or
\* "accepted" (any other status at post time, followed by a status query).
ExecuteSingleOrder(index, order, order_id, post, reply) ==
    LET shares == TruncScale2(order.shares)
    IN  IF shares = Zero
        THEN Result(index, "Failed", 0, Zero, Zero, "shares conversion")
        ELSE CASE post = "error" ->
                    Result(index, "Failed", 0, Zero, Zero, "post order")
               [] post = "rejected" ->
                    Result(index, "Failed", order_id, Zero, Zero, "rejected")
               [] post = "matched" ->
                    Result(index, "Filled", order_id, shares,
                           Mul(shares, order.price), "")
               [] OTHER -> ClassifyStatus(index, order, order_id, reply)

\* execute_single_order: the number of order status queries it makes.
\* The status is asked for only after a successful post whose response
\* was not Matched.
StatusQueries(order, post) ==
    IF TruncScale2(order.shares) # Zero /\ post = "accepted" THEN 1 ELSE 0

\* execute_orders: the result of a Buy held back by the balance guard.
Skipped(index) ==
    Result(index, "Skipped", 0, Zero, Zero, "insufficient balance")

\* check_resting_orders, one order id, resolving a fill as soon as the
\* reply reports matched shares, whatever the status.
CheckRestingOrderAnyMatch(s, order_id, reply) ==
    IF ~reply.ok THEN s
    ELSE IF Gt(reply.size_matched, Zero) \/ reply.status = "Matched"
         THEN ResolveRestingFill(s, order_id, reply.size_matched, reply.price)
         ELSE IF reply.status \in {"Canceled", "Unmatched"}
              THEN ResolveRestingCancel(s, order_id)
              ELSE s

\* check_resting_orders, one order id: the effect of the status reply on
\* the trading state.
CheckRestingOrder(s, order_id, reply) ==
    IF ~reply.ok THEN s
    ELSE CASE reply.status = "Matched" ->
                ResolveRestingFill(s, order_id, reply.size_matched, reply.price)
           [] reply.status \in {"Canceled", "Unmatched"} ->
                IF Gt(reply.size_matched, Zero)
                THEN ResolveRestingFill(s, order_id, reply.size_matched, reply.price)
                ELSE ResolveRestingCancel(s, order_id)
           [] OTHER -> s

\* ------------------------------------------------------------------------
\* The world outside the agent
\* ------------------------------------------------------------------------

Assets == {"A", "B"}

Half          == R(1, 2)
Quarter       == R(1, 4)
ThreeQuarters == R(3, 4)

\* A position as the data source returns it.
Pos(asset, size, avg_price, cur_price) ==
    [ asset         |-> asset,
      size          |-> size,
      avg_price     |-> avg_price,
      current_value |-> Mul(size, cur_price),
      cur_price     |-> cur_price ]

\* The portfolios the target trader moves between.
Portfolios ==
    { << >>,
      << Pos("A", R(6, 1), Half, Half) >>,
      << Pos("A", R(8, 1), Half, Half) >>,
      << Pos("B", R(12, 1), Quarter, Quarter), Pos("A", R(2, 1), Half, Half) >> }

\* What the agent's own wallet may hold when a live run starts.
OwnPortfolios ==
    { << >>,
      << Pos("B", R(4, 1), Half, Quarter) >>,
      << Pos("A", R(10, 1), Half, Half) >>,
      << Pos("B", R(12, 1), ThreeQuarters, Quarter) >> }

\* Prices the price oracle may quote for an asset the target has left
\* (0 and 1 are the prices of a resolved market).
OraclePrices == {Zero, Quarter, One}

\* USDC balances the wallet may report.
Balances == {Zero, R(4, 1)}

\* fetch_active_positions keeps the positions with current_value > 0 and
\* 0 < cur_price < 1.
FetchActivePositions(all) ==
    LET Active(pos) == /\ Gt(pos.current_value, Zero)
                       /\ Gt(pos.cur_price, Zero)
                       /\ Lt(pos.cur_price, One)
    IN  SelectSeq(all, Active)

\* build_price_map
BuildPriceMap(positions) ==
    [a \in {positions[i].asset : i \in 1..Len(positions)} |->
        LET i == CHOOSE j \in 1..Len(positions) :
                    /\ positions[j].asset = a
                    /\ \A k \in (j + 1)..Len(positions) : positions[k].asset # a
        IN  positions[i].cur_price]

\* build_exit_price_map: the active prices, completed with what the oracle
\* found for the needed assets that are missing (gamma maps the assets it
\* resolved to their price).
BuildExitPriceMap(active_prices, needed, gamma) ==
    LET missing == needed \ DOMAIN active_prices
        found   == missing \cap DOMAIN gamma
    IN  [a \in DOMAIN active_prices \cup found |->
            IF a \in DOMAIN active_prices THEN active_prices[a] ELSE gamma[a]]

\* The answers the oracle may give for a set of assets: any subset
\* resolved, each to one of the oracle prices.
GammaReplies(S) ==
    UNION { [T -> OraclePrices] : T \in SUBSET S }

\* All orders in which a HashMap may iterate over the keys in S.
Orderings(S) ==
    { seq \in [1..Cardinality(S) -> S] :
        \A i, j \in 1..Cardinality(S) : i # j => seq[i] # seq[j] }

\* ------------------------------------------------------------------------
\* The control loop (bin/copytrade.rs)
\* ------------------------------------------------------------------------

VARIABLES
    config,       \* the arguments: [budget, copy_pct, max_trade_pct]
    is_live,      \* --live (TRUE) or --dry-run (FALSE)
    pc,           \* where main is
    state,        \* the TradingState
    seen_hashes,  \* the dedup set
    trader,       \* the target: [positions, trades], trade hashes are 1..trades
    broker,       \* the venue's record of the orders the agent tracks or left open
    posted,       \* number of orders the venue has accepted so far
    sigint,       \* the shutdown signal was received
    missed_sigint, \* history: a SIGINT was delivered, and dropped, in the latest poll cycle
    trigger,      \* trigger of the rebalancing in progress
    new_hashes,   \* poll_cycle: new_hashes
    plan,         \* arguments and result of the latest compute_orders call
    orders,       \* the orders being executed
    results,      \* execute_orders: results
    skip_buys,    \* execute_orders: skip_buys
    order_ids,    \* check_resting_orders: the ids still to check
    last_cycle,   \* how the latest poll cycle ended
    observed,     \* history: every hash a trade fetch has returned so far
    unrebalanced, \* history: hashes detected as new, no rebalancing since
    prev,         \* history: the previous rebalancing ([targets, rested])
    reconciled,   \* history: assets with a resting order resolved since
    balance_queries, \* history: check_balance replies to the execute_orders call in progress
    cycle_start,  \* history: the TradingState when the poll cycle in progress began
    call          \* history: the latest direct call of an operation and the one before

vars == << config, is_live, pc, state, seen_hashes, trader, broker, posted, sigint, missed_sigint, trigger,
           new_hashes, plan, orders, results, skip_buys, order_ids,
           last_cycle, observed, unrebalanced, prev, reconciled,
           balance_queries, cycle_start, call >>

\* --budget, --copy-percentage / 100, --max-trade-size / 100
Budget      == R(4, 1)
CopyPct     == One
MaxTradePct == ThreeQuarters

\* The arguments of the runs of the control loop.
Args == [ budget |-> Budget, copy_pct |-> CopyPct, max_trade_pct |-> MaxTradePct ]

NoPlan == [ state |-> New(Budget), targets |-> << >>, price_map |-> EmptyMap,
            budget_remaining |-> Budget, orders |-> << >> ]

NoPrev == [ targets |-> EmptyMap, rested |-> {} ]

\* No poll cycle is in progress.
NoCycle == New(Budget)

\* No operation was called directly.
NoCall ==
    [ n |-> 0, op |-> "none", before |-> New(Budget), args |-> << >>,
      out |-> << >>,
      prev |-> [op |-> "none", before |-> New(Budget), args |-> << >>] ]

Init ==
    /\ config = Args
    /\ is_live \in BOOLEAN
    /\ pc = "start"
    /\ state = New(Budget)
    /\ seen_hashes = {}
    /\ trader \in [positions : Portfolios, trades : {0}]
    /\ broker = EmptyMap
    /\ posted = 0
    /\ sigint = FALSE
    /\ missed_sigint = FALSE
    /\ trigger = "InitialReplication"
    /\ new_hashes = {}
    /\ plan = NoPlan
    /\ orders = << >>
    /\ results = << >>
    /\ skip_buys = FALSE
    /\ order_ids = << >>
    /\ last_cycle = "none"
    /\ observed = {}
    /\ unrebalanced = {}
    /\ prev = NoPrev
    /\ reconciled = {}
    /\ balance_queries = << >>
    /\ cycle_start = NoCycle
    /\ call = NoCall

\* The hashes fetch_recent_trades returns (the 50 most recent trades).
RecentTrades == 1..trader.trades

\* ---- the environment ----

\* The target trader trades: the portfolio changes and a trade with a new
\* transaction hash becomes visible.  The agent sees the target only when
\* it fetches, so a trade is placed right before one of the fetches: a
\* trade made at any other moment has the effect of one made before the
\* next fetch.
TargetTrade ==
    /\ pc \in {"initial", "seed_dedup", "wait", "fetch_positions"}
    /\ trader.trades < MaxTrades
    /\ \E p \in Portfolios \ {trader.positions} :
          trader' = [positions |-> p, trades |-> trader.trades + 1]
    /\ UNCHANGED << call, balance_queries, cycle_start, config, is_live, pc, state, seen_hashes, broker, posted, sigint, missed_sigint, trigger,
                    new_hashes, plan, orders, results, skip_buys, order_ids,
                    last_cycle, observed, unrebalanced, prev, reconciled >>

\* ---- startup ----

\* The holdings seeded from the wallet's positions (main, lines 134-155).
RECURSIVE SeedHoldings(_, _)
SeedHoldings(s, positions) ==
    IF positions = << >> THEN s
    ELSE LET pos == Head(positions)
             total_cost == Mul(pos.size, pos.avg_price)
             s1 == [s EXCEPT
                      !.holdings = Insert(@, pos.asset,
                                          [ shares     |-> pos.size,
                                            total_cost |-> total_cost,
                                            avg_cost   |-> pos.avg_price ]),
                      !.budget_remaining = Sub(@, total_cost),
                      !.total_spent      = Add(@, total_cost)]
         IN  SeedHoldings(s1, Tail(positions))

\* main, lines 170-187: balance plus the current value of the holdings.
TotalCapital(s, balance, seeded_prices) ==
    LET Value(a) == Mul(s.holdings[a].shares,
                        IF a \in DOMAIN seeded_prices THEN seeded_prices[a]
                        ELSE s.holdings[a].avg_cost)
    IN  Add(balance, SumOn([a \in DOMAIN s.holdings |-> Value(a)],
                           DOMAIN s.holdings))

\* Dry-run start: nothing to authenticate or seed.
DryStartup ==
    /\ pc = "start"
    /\ ~is_live
    /\ pc' = "initial"
    /\ UNCHANGED << call, balance_queries, cycle_start, config, is_live, state, seen_hashes, trader, broker, posted, sigint, missed_sigint,
                    trigger, new_hashes, plan, orders, results, skip_buys,
                    order_ids, last_cycle, observed, unrebalanced, prev,
                    reconciled >>

\* Live start: authenticate, cancel stale orders, seed the holdings from
\* the wallet and check the capital (main, lines 106-192).
LiveStartup ==
    /\ pc = "start"
    /\ is_live
    /\ \/ \* authentication or the balance query fails
          /\ pc' = "aborted"
          /\ state' = state
       \/ \E own \in OwnPortfolios, fetch_ok \in BOOLEAN, balance \in Balances :
            LET positions == IF fetch_ok THEN FetchActivePositions(own) ELSE << >>
                seeded    == SeedHoldings(state, positions)
            IN  /\ state' = seeded
                /\ pc' = IF Lt(TotalCapital(seeded, balance, BuildPriceMap(positions)),
                               Budget)
                         THEN "aborted" ELSE "initial"
    /\ UNCHANGED << call, balance_queries, cycle_start, config, is_live, seen_hashes, trader, broker, posted, sigint, missed_sigint, trigger,
                    new_hashes, plan, orders, results, skip_buys, order_ids,
                    last_cycle, observed, unrebalanced, prev, reconciled >>

\* ---- rebalancing ----

\* The target shares per asset of a list of targets.
TargetShares(targets) ==
    [a \in {targets[i].asset : i \in 1..Len(targets)} |->
        LET i == CHOOSE j \in 1..Len(targets) : targets[j].asset = a
        IN  targets[i].target_shares]

\* The rebalancing that hands compute_orders no exit price at all.
RebalanceWithoutPrices(s, positions, price_map, held_order, copy_pct, max_trade_pct) ==
    LET weights        == ComputeWeights(positions)
        prices         == BuildPriceMap(positions)
        running_budget == EffectiveCapital(s, prices)
        targets        == ComputeTargetState(weights, running_budget,
                                             copy_pct, max_trade_pct)
    IN  [ state            |-> s,
          targets          |-> targets,
          price_map        |-> EmptyMap,
          budget_remaining |-> s.budget_remaining,
          orders           |-> ComputeOrders(targets, s, s.budget_remaining,
                                             EmptyMap, held_order) ]

\* poll_cycle, lines 379-389, and main, lines 202-213: from the target's
\* positions to the orders.
Rebalance(s, positions, price_map, held_order, copy_pct, max_trade_pct) ==
    LET weights        == ComputeWeights(positions)
        prices         == BuildPriceMap(positions)
        running_budget == EffectiveCapital(s, prices)
        targets        == ComputeTargetState(weights, running_budget,
                                             copy_pct, max_trade_pct)
    IN  [ state            |-> s,
          targets          |-> targets,
          price_map        |-> price_map,
          budget_remaining |-> s.budget_remaining,
          orders           |-> ComputeOrders(targets, s, s.budget_remaining,
                                             price_map, held_order) ]

\* Dry-run reconciliation that applies the Buys alone: the Sells of the
\* list are not booked.
DryApplyBuysOnly(s, os) ==
    [ApplyOrders(s, SelectSeq(os, LAMBDA o : o.side = "Buy"))
        EXCEPT !.total_events = @ + 1]

\* Dry-run reconciliation and event report (lines 220-234 and 397-411).
DryApply(s, os) ==
    [ApplyOrders(s, os) EXCEPT !.total_events = @ + 1]

\* Live reconciliation and event report (lines 216-234 and 393-411).
LiveApply(s, os, rs) ==
    [ApplyExecutionResults(s, os, rs) EXCEPT !.total_events = @ + 1]

\* History: what the finished rebalancing leaves for the next one to be
\* compared with.  An order is full when it was not downsized by the
\* budget cap.
Finished(p, rs) ==
    LET tgt == TargetShares(p.targets)
        Wanted(a) == IF a \in DOMAIN tgt THEN tgt[a] ELSE Zero
        Full(o) == \/ o.side = "Sell"
                   \/ o.shares = Sub(Wanted(o.asset),
                                     EffectiveHeldShares(p.state, o.asset))
    IN  [ targets |-> tgt,
          rested  |-> { [ asset    |-> p.orders[rs[i].order_index].asset,
                          order_id |-> rs[i].order_id,
                          full     |-> Full(p.orders[rs[i].order_index]) ] :
                        i \in { j \in 1..Len(rs) : rs[j].status = "Resting" } } ]

\* Where main continues after a rebalancing.
AfterRebalance == IF trigger = "InitialReplication" THEN "seed_dedup" ELSE "wait"

\* Initial replication (main, lines 194-240).
InitialReplication ==
    /\ pc = "initial"
    /\ \/ \* the fetch fails
          /\ pc' = "seed_dedup"
          /\ UNCHANGED << state, plan, orders, results, prev, reconciled >>
       \/ \* the target has no active position
          /\ FetchActivePositions(trader.positions) = << >>
          /\ pc' = "seed_dedup"
          /\ UNCHANGED << state, plan, orders, results, prev, reconciled >>
       \/ /\ FetchActivePositions(trader.positions) # << >>
          /\ \E held_order \in Orderings(DOMAIN state.holdings) :
               LET p == Rebalance(state, FetchActivePositions(trader.positions),
                                  EmptyMap, held_order,
                                  config.copy_pct, config.max_trade_pct)
               IN  /\ plan' = p
                   /\ IF is_live
                      THEN /\ orders' = p.orders
                           /\ results' = << >>
                           /\ pc' = "balance"
                           /\ UNCHANGED << state, prev, reconciled >>
                      ELSE /\ state' = DryApply(state, p.orders)
                           /\ prev' = Finished(p, << >>)
                           /\ reconciled' = {}
                           /\ pc' = "seed_dedup"
                           /\ UNCHANGED << orders, results >>
    /\ trigger' = "InitialReplication"
    /\ UNCHANGED << call, balance_queries, cycle_start, config, is_live, seen_hashes, trader, broker, posted, sigint, missed_sigint, new_hashes,
                    skip_buys, order_ids, last_cycle, observed, unrebalanced >>

\* Seeding of the dedup set (main, lines 242-254).
SeedDedup ==
    /\ pc = "seed_dedup"
    /\ \/ /\ seen_hashes' = seen_hashes \cup RecentTrades
          /\ observed' = observed \cup RecentTrades
       \/ \* the fetch fails
          UNCHANGED << seen_hashes, observed >>
    /\ pc' = "wait"
    /\ UNCHANGED << call, balance_queries, cycle_start, config, is_live, state, trader, broker, posted, sigint, missed_sigint, trigger,
                    new_hashes, plan, orders, results, skip_buys, order_ids,
                    last_cycle, unrebalanced, prev, reconciled >>

\* ---- the polling loop ----

\* Where the loop is after poll_cycle returned an error that main would
\* propagate instead of logging.
AfterCycleErrorPropagated == "aborted"

\* Where the loop is after poll_cycle returned an error (main, lines
\* 275-287: the error is logged and the loop goes on).
AfterCycleError == "wait"

\* poll_cycle, lines 363-369, keeping the dedup set as it is.
DedupNoInsert(seen, fetched) ==
    [ new_hashes |-> fetched \ seen, seen_hashes |-> seen ]

\* poll_cycle, lines 363-369: the hashes not seen before are new, and all
\* fetched hashes are seen from now on.
Dedup(seen, fetched) ==
    [ new_hashes |-> fetched \ seen, seen_hashes |-> seen \cup fetched ]

\* The shutdown signal wins the select (main, lines 270-273).
Shutdown ==
    /\ pc = "wait"
    /\ sigint' = TRUE
    /\ pc' = "shutdown"
    /\ missed_sigint' = FALSE
    /\ UNCHANGED << call, balance_queries, cycle_start, config, is_live, state, seen_hashes, trader, broker, posted, trigger,
                    new_hashes, plan, orders, results, skip_buys, order_ids,
                    last_cycle, observed, unrebalanced, prev, reconciled >>

\* main is past the startup and has entered the polling loop: the first
\* ctrl_c() of the select has installed the handler for SIGINT, which
\* stays installed for the rest of the process.
HandlerInstalled ==
    \/ pc \in {"wait", "check_resting", "fetch_trades", "fetch_positions"}
    \/ pc \in {"balance", "execute"} /\ trigger = "TradeDetected"

\* SIGINT is delivered while poll_cycle runs (main, lines 274-286).  The
\* ctrl_c() future of the select was dropped when the sleep branch won and
\* the next one is created only by the next pass of the loop; it completes
\* on signals delivered after its creation.  The handler swallows the
\* signal and nothing awaits it.
SigintInCycle ==
    /\ HandlerInstalled
    /\ pc # "wait"
    /\ ~missed_sigint
    /\ missed_sigint' = TRUE
    /\ UNCHANGED << call, balance_queries, cycle_start, config, is_live, pc, state,
                    seen_hashes, trader, broker, posted, sigint, trigger,
                    new_hashes, plan, orders, results, skip_buys, order_ids,
                    last_cycle, observed, unrebalanced, prev, reconciled >>

\* SIGINT is delivered before main reaches the polling loop (lines 53-266):
\* no handler is installed yet and the default disposition ends the
\* process.
SigintBeforeLoop ==
    /\ \/ pc \in {"start", "initial", "seed_dedup"}
       \/ pc \in {"balance", "execute"} /\ trigger = "InitialReplication"
    /\ pc' = "killed"
    /\ UNCHANGED << missed_sigint, call, balance_queries, cycle_start, config, is_live,
                    state, seen_hashes, trader, broker, posted, sigint,
                    trigger, new_hashes, plan, orders, results, skip_buys,
                    order_ids, last_cycle, observed, unrebalanced, prev,
                    reconciled >>

\* A poll cycle that starts without looking at the resting orders first.
PollTickWithoutCheck ==
    /\ pc = "wait"
    /\ order_ids' = IF is_live
                    THEN [i \in 1..Len(state.resting_orders) |->
                             state.resting_orders[i].order_id]
                    ELSE << >>
    /\ pc' = "fetch_trades"
    /\ new_hashes' = {}
    /\ plan' = NoPlan
    /\ cycle_start' = state
    /\ missed_sigint' = FALSE
    /\ UNCHANGED << call, balance_queries, config, is_live, state, seen_hashes, trader, broker, posted, sigint,
                    trigger, orders, results, skip_buys, last_cycle, observed,
                    unrebalanced, prev, reconciled >>

\* The poll timer wins the select: a poll cycle starts (lines 274-275 and
\* 356-358, executor.rs lines 405-419).
PollTick ==
    /\ pc = "wait"
    /\ IF is_live /\ state.resting_orders # << >>
       THEN /\ order_ids' = [i \in 1..Len(state.resting_orders) |->
                               state.resting_orders[i].order_id]
            /\ pc' = "check_resting"
       ELSE /\ order_ids' = << >>
            /\ pc' = "fetch_trades"
    /\ new_hashes' = {}
    /\ plan' = NoPlan
    /\ cycle_start' = state
    /\ missed_sigint' = FALSE
    /\ UNCHANGED << call, balance_queries, config, is_live, state, seen_hashes, trader, broker, posted, sigint,
                    trigger, orders, results, skip_buys, last_cycle, observed,
                    unrebalanced, prev, reconciled >>

\* poll_cycle, lines 360-374: fetch the recent trades and dedup them.
FetchTrades ==
    /\ pc = "fetch_trades"
    /\ \/ \* the fetch fails
          /\ pc' = AfterCycleError
          /\ last_cycle' = "trades_failed"
          /\ UNCHANGED << seen_hashes, new_hashes, observed, unrebalanced >>
       \/ LET d == Dedup(seen_hashes, RecentTrades)
          IN  /\ seen_hashes' = d.seen_hashes
              /\ new_hashes' = d.new_hashes
              /\ observed' = observed \cup RecentTrades
              /\ unrebalanced' = unrebalanced \cup d.new_hashes
              /\ IF d.new_hashes = {}
                 THEN /\ pc' = "wait"
                      /\ last_cycle' = "no_new_trades"
                 ELSE /\ pc' = "fetch_positions"
                      /\ last_cycle' = last_cycle
    /\ cycle_start' = IF pc' = "wait" THEN NoCycle ELSE cycle_start
    /\ UNCHANGED << call, balance_queries, config, is_live, state, trader, broker, posted, sigint, missed_sigint, trigger, plan,
                    orders, results, skip_buys, order_ids, prev, reconciled >>

\* poll_cycle, lines 376-417: refetch the target's positions, look up the
\* exit prices, compute the orders and, in a dry run, apply them.
FetchPositions ==
    /\ pc = "fetch_positions"
    /\ \/ \* the fetch fails
          /\ pc' = AfterCycleError
          /\ last_cycle' = "positions_failed"
          /\ UNCHANGED << state, trigger, plan, orders, results,
                          unrebalanced, prev, reconciled >>
       \/ \E gamma \in GammaReplies(DOMAIN state.holdings
                   \ DOMAIN BuildPriceMap(FetchActivePositions(trader.positions))),
             held_order \in Orderings(DOMAIN state.holdings) :
            LET positions == FetchActivePositions(trader.positions)
                price_map == BuildExitPriceMap(BuildPriceMap(positions),
                                               DOMAIN state.holdings, gamma)
                p == Rebalance(state, positions, price_map, held_order,
                               config.copy_pct, config.max_trade_pct)
            IN  /\ plan' = p
                /\ unrebalanced' = {}
                /\ trigger' = "TradeDetected"
                /\ IF p.orders = << >>
                   THEN /\ pc' = "wait"
                        /\ last_cycle' = "no_orders"
                        /\ UNCHANGED << state, orders, results, prev, reconciled >>
                   ELSE IF is_live
                   THEN /\ orders' = p.orders
                        /\ results' = << >>
                        /\ pc' = "balance"
                        /\ last_cycle' = last_cycle
                        /\ UNCHANGED << state, prev, reconciled >>
                   ELSE /\ state' = DryApply(state, p.orders)
                        /\ prev' = Finished(p, << >>)
                        /\ reconciled' = {}
                        /\ pc' = "wait"
                        /\ last_cycle' = "rebalanced"
                        /\ UNCHANGED << orders, results >>
    /\ cycle_start' = IF pc' = "wait" THEN NoCycle ELSE cycle_start
    /\ UNCHANGED << call, balance_queries, config, is_live, seen_hashes, trader, broker, posted, sigint, missed_sigint, new_hashes,
                    skip_buys, order_ids, observed >>

\* ---- the venue ----

\* What the venue may report about an order of the given size: a status
\* and the size matched so far.  The status Unmatched is handled by the
\* very arms that handle Canceled and is not listed apart.
OrderStates(size) ==
    { [status |-> "Matched",   size_matched |-> size],
      [status |-> "Matched",   size_matched |-> Zero],
      [status |-> "Live",      size_matched |-> Zero],
      [status |-> "Live",      size_matched |-> Mul(size, Half)],
      [status |-> "Canceled",  size_matched |-> Zero],
      [status |-> "Canceled",  size_matched |-> Mul(size, Half)],
      [status |-> "Delayed",   size_matched |-> Zero] }

\* How an order may have moved on since it was last looked at: an open
\* order may fill further or reach a final status, a closed one stays.
LaterStates(rec) ==
    IF rec.status \in {"Live", "Delayed"}
    THEN { x \in OrderStates(rec.size) :
             /\ Ge(x.size_matched, rec.size_matched)
             /\ rec.status = "Live" => x.status # "Delayed" }
    ELSE { [status |-> rec.status, size_matched |-> rec.size_matched] }

\* The record the venue keeps of a posted order.
Posted(order, st) ==
    [ asset        |-> order.asset,
      side         |-> order.side,
      size         |-> TruncScale2(order.shares),
      price        |-> TruncScale2(order.price),
      status       |-> st.status,
      size_matched |-> st.size_matched ]

\* The reply to an order status query.
Reply(ok, rec) ==
    [ ok           |-> ok,
      status       |-> rec.status,
      size_matched |-> rec.size_matched,
      price        |-> rec.price ]

NoReply == [ ok |-> FALSE, status |-> "", size_matched |-> Zero, price |-> Zero ]

\* ---- execute_orders ----

\* The answers check_balance may give: the balance, or an error.
BalanceReplies ==
    { [ok |-> TRUE, balance |-> b] : b \in Balances }
        \cup { [ok |-> FALSE, balance |-> Zero] }

\* execute_orders, lines 98-112, skipping the buys only when the balance
\* query fails.
SkipBuysOnFailureOnly(reply) == ~reply.ok

\* execute_orders, lines 98-112: the buys are skipped when the balance is
\* below $1.00 or the query fails.
SkipBuys(reply) == ~reply.ok \/ Lt(reply.balance, One)

\* execute_orders, lines 91-113: the balance guard.
BalanceGuard ==
    /\ pc = "balance"
    /\ IF \E i \in 1..Len(orders) : orders[i].side = "Buy"
       THEN \E reply \in BalanceReplies :
               /\ balance_queries' = << reply >>
               /\ skip_buys' = SkipBuys(reply)
       ELSE /\ balance_queries' = << >>
            /\ skip_buys' = FALSE
    /\ pc' = "execute"
    /\ UNCHANGED << call, cycle_start, config, is_live, state, seen_hashes, trader, broker, posted, sigint, missed_sigint,
                    trigger, new_hashes, plan, orders, results, order_ids,
                    last_cycle, observed, unrebalanced, prev, reconciled >>

\* The venue's records with the record of a newly posted order added if
\* the agent tracks the order or the order is still open at the venue.
Track(records, order_id, rec, result) ==
    IF \/ result.status \in {"Resting", "PartialFill"}
       \/ rec.status \in {"Live", "Delayed"}
    THEN [id \in DOMAIN records \cup {order_id} |->
            IF id = order_id THEN rec ELSE records[id]]
    ELSE records

\* execute_orders, lines 115-136: one iteration of the loop.
ExecuteOrder ==
    /\ pc = "execute"
    /\ Len(results) < Len(orders)
    /\ LET idx      == Len(results) + 1
           order    == orders[idx]
           order_id == posted + 1
       IN  \/ \* held back by the balance guard
              /\ order.side = "Buy" /\ skip_buys
              /\ results' = Append(results, Skipped(idx))
              /\ UNCHANGED << broker, posted >>
           \/ \* nothing is posted: no shares left after truncation, no
              \* response after the retries, or the venue rejects the order
              /\ ~(order.side = "Buy" /\ skip_buys)
              /\ \E attempts \in [1..MAX_RETRIES -> PostOutcomes],
                    post \in {"error", "rejected"} :
                   /\ (post = "error") = ~PostWithRetry(attempts, 0).ok
                   /\ results' = Append(results,
                         ExecuteSingleOrder(idx, order, 0, post, NoReply))
              /\ UNCHANGED << broker, posted >>
           \/ \* the order is posted
              /\ ~(order.side = "Buy" /\ skip_buys)
              /\ TruncScale2(order.shares) # Zero
              /\ posted < MaxPosted
              /\ \E attempts \in [1..MAX_RETRIES -> PostOutcomes] :
                   PostWithRetry(attempts, 0).ok
              /\ posted' = posted + 1
              /\ \/ \* matched at post time
                    /\ results' = Append(results,
                          ExecuteSingleOrder(idx, order, order_id,
                                             "matched", NoReply))
                    /\ broker' = broker
                 \/ \* not matched at post time: the status is queried
                    \E st \in OrderStates(TruncScale2(order.shares)),
                       query_ok \in BOOLEAN :
                      LET rec    == Posted(order, st)
                          result == ExecuteSingleOrder(idx, order, order_id,
                                        "accepted", Reply(query_ok, rec))
                      IN  /\ results' = Append(results, result)
                          /\ broker' = Track(broker, order_id, rec, result)
    /\ UNCHANGED << call, balance_queries, cycle_start, config, is_live, pc, state, seen_hashes, trader, sigint, missed_sigint, trigger,
                    new_hashes, plan, orders, skip_buys, order_ids, last_cycle,
                    observed, unrebalanced, prev, reconciled >>

\* The reconciliation after execute_orders returned (lines 216-234 and
\* 393-411).
ApplyResults ==
    /\ pc = "execute"
    /\ Len(results) = Len(orders)
    /\ state' = LiveApply(state, orders, results)
    /\ prev' = Finished(plan, results)
    /\ reconciled' = {}
    /\ pc' = AfterRebalance
    /\ last_cycle' = IF trigger = "InitialReplication" THEN last_cycle
                     ELSE "rebalanced"
    /\ orders' = << >>
    /\ results' = << >>
    /\ skip_buys' = FALSE
    /\ cycle_start' = NoCycle
    /\ balance_queries' = << >>
    /\ UNCHANGED << call, config, is_live, seen_hashes, trader, broker, posted, sigint, missed_sigint, trigger,
                    new_hashes, plan, order_ids, observed, unrebalanced >>

\* ---- check_resting_orders ----

\* The asset of the resting order with the given id.
AssetOf(s, order_id) ==
    s.resting_orders[Position(s.resting_orders, order_id)].asset

\* check_resting_orders, lines 421-468: one iteration of the loop.  The
\* venue's record moves on to what it reports now.
CheckResting ==
    /\ pc = "check_resting"
    /\ order_ids # << >>
    /\ LET order_id == Head(order_ids)
       IN  \E st \in LaterStates(broker[order_id]), query_ok \in BOOLEAN :
             LET rec == [broker[order_id] EXCEPT
                           !.status = st.status,
                           !.size_matched = st.size_matched]
                 s1  == CheckRestingOrder(state, order_id, Reply(query_ok, rec))
             IN  /\ broker' = IF Position(s1.resting_orders, order_id) = 0
                               THEN [id \in DOMAIN broker \ {order_id} |-> broker[id]]
                               ELSE [broker EXCEPT ![order_id] = rec]
                 /\ state' = s1
                 /\ reconciled' =
                       IF s1.resting_orders # state.resting_orders
                       THEN reconciled \cup {AssetOf(state, order_id)}
                       ELSE reconciled
    /\ order_ids' = Tail(order_ids)
    /\ pc' = IF Tail(order_ids) = << >> THEN "fetch_trades" ELSE pc
    /\ UNCHANGED << call, balance_queries, cycle_start, config, is_live, seen_hashes, trader, posted, sigint, missed_sigint, trigger,
                    new_hashes, plan, orders, results, skip_buys, last_cycle,
                    observed, unrebalanced, prev >>

\* ---- shutdown ----

\* The ids of the orders in the resting ledger.
RestingIds(s) == { s.resting_orders[i].order_id : i \in 1..Len(s.resting_orders) }

\* The shutdown without the loop that resolves the resting orders.
CancelNone(s, ids) == s

\* main, lines 318-321: resolve_resting_cancel for each order id.
RECURSIVE CancelAll(_, _)
CancelAll(s, ids) ==
    IF ids = << >> THEN s
    ELSE CancelAll(ResolveRestingCancel(s, Head(ids)), Tail(ids))

\* main, lines 292-323: cancel the resting orders at the venue and resolve
\* them as cancelled in the trading state.
CancelResting ==
    /\ pc = "shutdown"
    /\ IF is_live /\ state.resting_orders # << >>
       THEN LET ids == [i \in 1..Len(state.resting_orders) |->
                          state.resting_orders[i].order_id]
            IN  /\ state' = CancelAll(state, ids)
                /\ \/ broker' = [id \in DOMAIN broker \ RestingIds(state) |->
                                    broker[id]]
                   \/ \* cancel_orders fails: the venue keeps the orders
                      broker' = broker
       ELSE UNCHANGED << state, broker >>
    /\ pc' = "summary"
    /\ UNCHANGED << call, balance_queries, cycle_start, config, is_live, seen_hashes, trader, posted, sigint, missed_sigint, trigger,
                    new_hashes, plan, orders, results, skip_buys, order_ids,
                    last_cycle, observed, unrebalanced, prev, reconciled >>

\* main, lines 325-340: the exit summary is reported and main returns.
ExitSummary ==
    /\ pc = "summary"
    /\ pc' = "done"
    /\ UNCHANGED << call, balance_queries, cycle_start, config, is_live, state, seen_hashes, trader, broker, posted, sigint, missed_sigint,
                    trigger, new_hashes, plan, orders, results, skip_buys,
                    order_ids, last_cycle, observed, unrebalanced, prev,
                    reconciled >>

\* ------------------------------------------------------------------------
\* Specification
\* ------------------------------------------------------------------------

Next ==
    \/ TargetTrade
    \/ SigintInCycle
    \/ SigintBeforeLoop
    \/ DryStartup
    \/ LiveStartup
    \/ InitialReplication
    \/ SeedDedup
    \/ Shutdown
    \/ PollTick
    \/ CheckResting
    \/ FetchTrades
    \/ FetchPositions
    \/ BalanceGuard
    \/ ExecuteOrder
    \/ ApplyResults
    \/ CancelResting
    \/ ExitSummary

Spec == Init /\ [][Next]_vars

\* ------------------------------------------------------------------------
\* The operations called directly
\* ------------------------------------------------------------------------

\* The number of operations called in a row.
MaxCalls == 2

\* A SimulatedOrder, priced as compute_orders prices it.
Order(asset, side, shares, price) ==
    [ asset |-> asset, side |-> side, shares |-> shares, price |-> price,
      cost_usd |-> Mul(shares, price) ]

\* A RestingOrder for an order.
Resting(order_id, order) ==
    [ order_id |-> order_id, asset |-> order.asset, side |-> order.side,
      shares |-> order.shares, price |-> order.price,
      cost_usd |-> order.cost_usd ]

\* The order ids the venue issues; an id is issued once.
UnitIds == {1, 2, 3}

UnitOrders ==
    { Order(asset, side, R(4, 1), price) :
        asset \in Assets, side \in {"Buy", "Sell"}, price \in {Quarter, Half} }

\* The orders handed to execute_single_order: one whose size truncates to
\* zero, one whose size loses its third decimal, one that is sent as it is.
UnitPostedOrders ==
    { Order("A", "Buy", R(1, 200), Half),
      Order("A", "Buy", R(17, 8), Half),
      Order("B", "Sell", R(4, 1), Quarter) }

\* The batches handed to apply_orders and apply_execution_results.
UnitBatches ==
    { << >>,
      << Order("A", "Buy", R(4, 1), Half) >>,
      << Order("B", "Sell", R(4, 1), Quarter) >>,
      << Order("B", "Sell", R(4, 1), Half), Order("A", "Buy", R(4, 1), Quarter) >>,
      << Order("A", "Buy", R(4, 1), Half), Order("B", "Buy", R(4, 1), Quarter) >> }

\* The trading states the calls start from: the seeded wallets, with and
\* without an order resting on the book.
UnitStates ==
    LET seeded == { SeedHoldings(New(Budget), own) : own \in OwnPortfolios }
    IN  seeded
          \cup { AddRestingOrder(SeedHoldings(New(Budget), << >>),
                                 Resting(3, Order("A", "Buy", R(4, 1), Half))),
                 AddRestingOrder(SeedHoldings(New(Budget),
                                    << Pos("B", R(12, 1), ThreeQuarters, Quarter) >>),
                                 Resting(3, Order("B", "Sell", R(4, 1), Quarter))) }

\* The replies to an order status query.
UnitReplies ==
    { [ ok |-> TRUE, status |-> st, size_matched |-> m, price |-> p ] :
        st \in {"Matched", "Live", "Canceled", "Unmatched", "Delayed"},
        m \in {Zero, R(2, 1)}, p \in {Quarter, Half} }
      \cup { NoReply }

\* The results execute_orders may return for the order at index i.
UnitResults(order, i) ==
    { Result(i, "Filled", i, order.shares, order.cost_usd, ""),
      Result(i, "PartialFill", i, R(2, 1), Mul(R(2, 1), Quarter), ""),
      Result(i, "Resting", i, Zero, Zero, ""),
      Result(i, "Failed", i, Zero, Zero, "order cancelled"),
      Result(i, "Failed", 0, Zero, Zero, "post order"),
      Skipped(i) }

\* The result lists for a batch: one result for each order, in order.
UnitResultLists(batch) ==
    { rs \in [1..Len(batch) -> UNION { UnitResults(batch[i], i) : i \in 1..Len(batch) }] :
        \A i \in 1..Len(batch) : rs[i] \in UnitResults(batch[i], i) }

UnitInit ==
    /\ config = Args
    /\ is_live = TRUE
    /\ pc = "unit"
    /\ state \in UnitStates
    /\ seen_hashes = {}
    /\ trader = [positions |-> << >>, trades |-> 0]
    /\ broker = EmptyMap
    /\ posted = 0
    /\ sigint = FALSE
    /\ missed_sigint = FALSE
    /\ trigger = "InitialReplication"
    /\ new_hashes = {}
    /\ plan = NoPlan
    /\ orders = << >>
    /\ results = << >>
    /\ skip_buys = FALSE
    /\ order_ids = << >>
    /\ last_cycle = "none"
    /\ observed = {}
    /\ unrebalanced = {}
    /\ prev = NoPrev
    /\ reconciled = {}
    /\ balance_queries = << >>
    /\ cycle_start = NoCycle
    /\ call = NoCall

\* A call changes the trading state and nothing else.
Called(op, args, after, out) ==
    /\ pc = "unit"
    /\ call.n < MaxCalls
    /\ call' = [ n |-> call.n + 1, op |-> op, before |-> state,
                 args |-> args, out |-> out,
                 prev |-> [ op |-> call.op, before |-> call.before,
                            args |-> call.args ] ]
    /\ state' = after
    /\ UNCHANGED << balance_queries, cycle_start, config, is_live, pc, seen_hashes,
                    trader, broker, posted, sigint, missed_sigint, trigger, new_hashes, plan,
                    orders, results, skip_buys, order_ids, last_cycle,
                    observed, unrebalanced, prev, reconciled >>

\* state.add_resting_order(order), with an id the venue has just issued.
UnitAddRestingOrder ==
    \E order_id \in UnitIds \ RestingIds(state), order \in UnitOrders :
        LET resting == Resting(order_id, order)
        IN  Called("add_resting_order", [order |-> resting],
                   AddRestingOrder(state, resting), << >>)

\* state.resolve_resting_fill(order_id, filled_shares, fill_price)
UnitResolveRestingFill ==
    \E order_id \in UnitIds, filled_shares \in {R(2, 1), R(4, 1)},
       fill_price \in {Quarter, Half} :
        Called("resolve_resting_fill",
               [ order_id |-> order_id, filled_shares |-> filled_shares,
                 fill_price |-> fill_price ],
               ResolveRestingFill(state, order_id, filled_shares, fill_price),
               << >>)

\* state.resolve_resting_cancel(order_id)
UnitResolveRestingCancel ==
    \E order_id \in UnitIds :
        Called("resolve_resting_cancel", [order_id |-> order_id],
               ResolveRestingCancel(state, order_id), << >>)

\* One iteration of the loop of check_resting_orders over the snapshot of
\* the ledger.
UnitCheckRestingOrder ==
    \E order_id \in RestingIds(state), reply \in UnitReplies :
        Called("check_resting_order", [order_id |-> order_id, reply |-> reply],
               CheckRestingOrder(state, order_id, reply), << >>)

\* state.apply_orders(orders)
UnitApplyOrders ==
    \E batch \in UnitBatches :
        Called("apply_orders", [orders |-> batch],
               ApplyOrders(state, batch), << >>)

\* state.apply_execution_results(orders, results), the results carrying
\* ids the venue has just issued.
UnitApplyExecutionResults ==
    \E batch \in UnitBatches :
        \E rs \in UnitResultLists(batch) :
            /\ \A i \in 1..Len(rs) : rs[i].order_id \notin RestingIds(state)
            /\ Called("apply_execution_results",
                      [orders |-> batch, results |-> rs],
                   ApplyExecutionResults(state, batch, rs), << >>)

UnitNext ==
    \/ UnitAddRestingOrder
    \/ UnitResolveRestingFill
    \/ UnitResolveRestingCancel
    \/ UnitCheckRestingOrder
    \/ UnitApplyOrders
    \/ UnitApplyExecutionResults

UnitSpec == UnitInit /\ [][UnitNext]_vars

\* ------------------------------------------------------------------------
\* execute_single_order called directly
\* ------------------------------------------------------------------------

ExecutorInit ==
    /\ UnitInit
    /\ state = New(Budget)

\* execute_single_order(ctx, index, order): attempts is what each pass of
\* the retry loop meets, response how the venue answers a post that
\* reaches it, reply how it answers the status query.  Either the post
\* goes through the retry loop and the status reply is Live with nothing
\* matched, or the first pass posts the order and the response and the
\* status reply are any.
UnitExecuteSingleOrder ==
    \E order \in UnitPostedOrders, order_id \in {1},
       attempts \in [1..MAX_RETRIES -> PostOutcomes],
       response \in {"rejected", "matched", "accepted"},
       reply \in UnitReplies :
        /\ pc = "unit"
        /\ \/ /\ response = "accepted"
              /\ reply = [ ok |-> TRUE, status |-> "Live",
                           size_matched |-> Zero, price |-> Half ]
           \/ /\ attempts = [i \in 1..MAX_RETRIES |-> "ok"]
              /\ response = "accepted" \/ reply = NoReply
        /\ LET sent  == TruncScale2(order.shares) # Zero
               retry == PostWithRetry(attempts, 0)
               post  == IF retry.ok THEN response ELSE "error"
               id    == IF retry.ok THEN order_id ELSE 0
           IN  call' = [ n |-> 1, op |-> "execute_single_order",
                         before |-> state,
                         args |-> [ order |-> order, order_id |-> order_id,
                                    attempts |-> attempts,
                                    response |-> response, reply |-> reply ],
                         out |-> [ result   |-> ExecuteSingleOrder(1, order, id, post, reply),
                                   attempts |-> IF sent THEN retry.attempts ELSE 0,
                                   sleeps   |-> IF sent THEN retry.sleeps ELSE << >>,
                                   status_queries |-> StatusQueries(order, post) ],
                         prev |-> NoCall.prev ]
        /\ UNCHANGED << state, balance_queries, cycle_start, config, is_live, pc,
                        seen_hashes, trader, broker, posted, sigint, missed_sigint, trigger,
                        new_hashes, plan, orders, results, skip_buys,
                        order_ids, last_cycle, observed, unrebalanced, prev,
                        reconciled >>

ExecutorNext == UnitExecuteSingleOrder

ExecutorSpec == ExecutorInit /\ [][ExecutorNext]_vars

\* ------------------------------------------------------------------------
\* The rebalancing cycles, one step each, under several arguments
\* ------------------------------------------------------------------------

Cents(n) == R(n, 100)

\* --budget, --copy-percentage / 100, --max-trade-size / 100 of the runs.
ScenarioArgs ==
    { [ budget |-> R(1000, 1), copy_pct |-> Half, max_trade_pct |-> R(3, 10) ],
      [ budget |-> R(1000, 1), copy_pct |-> Zero, max_trade_pct |-> R(3, 10) ],
      [ budget |-> R(5, 1),    copy_pct |-> One,  max_trade_pct |-> One ],
      [ budget |-> R(5, 1),    copy_pct |-> Zero, max_trade_pct |-> One ] }

\* The portfolios the target trader moves between.
ScenarioPortfolios ==
    { << >>,
      << Pos("A", R(750, 1), Cents(40), Cents(40)),
         Pos("B", R(125, 1), Cents(80), Cents(80)) >>,
      << Pos("B", R(125, 1), Cents(80), Cents(80)) >>,
      << Pos("A", R(10, 1), Half, Half) >>,
      << Pos("B", R(8, 1), Quarter, Quarter) >> }

\* What the agent's own wallet may hold when a live run starts.
ScenarioOwnPortfolios ==
    { << >>,
      << Pos("A", R(4, 1), Half, Half) >>,
      << Pos("B", R(12, 1), ThreeQuarters, Quarter) >> }

\* Prices the price oracle may quote for an asset the target has left.
ScenarioOraclePrices == {Cents(45), Half}

\* The answers of the oracle for a set of assets.
ScenarioGammaReplies(S) ==
    UNION { [T -> ScenarioOraclePrices] : T \in SUBSET S }

\* A TargetAllocation handed to compute_orders directly.
Target(asset, target_shares, cur_price) ==
    [ asset            |-> asset,
      trader_weight    |-> One,
      target_value_usd |-> Mul(target_shares, cur_price),
      target_shares    |-> target_shares,
      cur_price        |-> cur_price ]

\* The targets handed to compute_orders directly.
ScenarioTargets ==
    { << Target("B", R(5, 1), Cents(40)) >>,
      << Target("A", R(4, 1), Half), Target("B", R(5, 1), Cents(40)) >>,
      << Target("A", R(6, 1), Half), Target("B", R(8, 1), Half) >>,
      << Target("A", R(20, 1), Half), Target("B", R(5, 1), Cents(40)) >> }

\* The results execute_orders may return for the order at index i, the
\* venue issuing the id order_id for it.
ScenarioResults(order, i, order_id) ==
    { Result(i, "Filled", order_id, order.shares, order.cost_usd, ""),
      Result(i, "Resting", order_id, Zero, Zero, ""),
      Result(i, "Failed", 0, Zero, Zero, "post order") }

\* The result lists for a batch, ids counting on from first_id.
ScenarioResultLists(batch, first_id) ==
    { rs \in [1..Len(batch) ->
                UNION { ScenarioResults(batch[i], i, first_id + i) : i \in 1..Len(batch) }] :
        \A i \in 1..Len(batch) : rs[i] \in ScenarioResults(batch[i], i, first_id + i) }

\* The state when main reaches the initial replication: a fresh
\* TradingState in dry-run, the seeded wallet in live mode.
ScenarioInit ==
    /\ config \in ScenarioArgs
    /\ is_live \in BOOLEAN
    /\ pc = "scenario_initial"
    /\ state \in IF is_live
                 THEN { SeedHoldings(New(config.budget), FetchActivePositions(own)) :
                          own \in ScenarioOwnPortfolios }
                 ELSE { New(config.budget) }
    /\ seen_hashes = {}
    /\ trader = [positions |-> << >>, trades |-> 0]
    /\ broker = EmptyMap
    /\ posted = 0
    /\ sigint = FALSE
    /\ missed_sigint = FALSE
    /\ trigger = "InitialReplication"
    /\ new_hashes = {}
    /\ plan = NoPlan
    /\ orders = << >>
    /\ results = << >>
    /\ skip_buys = FALSE
    /\ order_ids = << >>
    /\ last_cycle = "none"
    /\ observed = {}
    /\ unrebalanced = {}
    /\ prev = NoPrev
    /\ reconciled = {}
    /\ balance_queries = << >>
    /\ cycle_start = NoCycle
    /\ call = NoCall

\* One cycle as a whole: what it was given, what it computed and the
\* TradingState it leaves.
Cycled(op, args, p, rs, after) ==
    /\ call' = [ n |-> call.n + 1, op |-> op, before |-> state,
                 args |-> args, out |-> p.orders,
                 prev |-> [ op |-> call.op, before |-> call.before,
                            args |-> call.args ] ]
    /\ plan' = p
    /\ orders' = p.orders
    /\ results' = rs
    /\ posted' = posted + Len(rs)
    /\ state' = after
    /\ UNCHANGED << balance_queries, cycle_start, config, is_live, seen_hashes,
                    trader, broker, sigint, missed_sigint, new_hashes,
                    skip_buys, order_ids, observed, unrebalanced, prev,
                    reconciled >>

\* The plan of a cycle that computed no orders.
Unplanned(s) ==
    [ state |-> s, targets |-> << >>, price_map |-> EmptyMap,
      budget_remaining |-> s.budget_remaining, orders |-> << >> ]

\* Initial replication (main, lines 194-240), the fetch succeeding.
ScenarioInitialReplication ==
    /\ pc = "scenario_initial"
    /\ pc' = "scenario_loop"
    /\ trigger' = "InitialReplication"
    /\ \E all \in ScenarioPortfolios :
         LET positions == FetchActivePositions(all)
             args == [ positions |-> positions, gamma |-> EmptyMap ]
         IN  IF positions = << >>
             THEN /\ last_cycle' = "no_positions"
                  /\ Cycled("initial_replication", args, Unplanned(state),
                            << >>, state)
             ELSE \E held_order \in Orderings(DOMAIN state.holdings) :
                    LET p == Rebalance(state, positions, EmptyMap, held_order,
                                       config.copy_pct, config.max_trade_pct)
                    IN  /\ last_cycle' = "rebalanced"
                        /\ IF is_live
                           THEN \E rs \in ScenarioResultLists(p.orders, posted) :
                                  Cycled("initial_replication", args, p, rs,
                                         LiveApply(state, p.orders, rs))
                           ELSE Cycled("initial_replication", args, p, << >>,
                                       DryApply(state, p.orders))

\* A poll cycle that detects a new trade (poll_cycle, lines 372-415), the
\* fetches succeeding.
ScenarioPollCycle ==
    /\ pc = "scenario_loop"
    /\ call.n < MaxCalls
    /\ pc' = pc
    /\ trigger' = "TradeDetected"
    /\ \E all \in ScenarioPortfolios :
         LET positions == FetchActivePositions(all)
             active_prices == BuildPriceMap(positions)
         IN  \E gamma \in ScenarioGammaReplies(DOMAIN state.holdings
                                                 \ DOMAIN active_prices),
                held_order \in Orderings(DOMAIN state.holdings) :
               LET price_map == BuildExitPriceMap(active_prices,
                                                  DOMAIN state.holdings, gamma)
                   p == Rebalance(state, positions, price_map, held_order,
                                  config.copy_pct, config.max_trade_pct)
                   args == [ positions |-> positions, gamma |-> gamma ]
               IN  IF p.orders = << >>
                   THEN /\ last_cycle' = "no_orders"
                        /\ Cycled("poll_cycle", args, p, << >>, state)
                   ELSE /\ last_cycle' = "rebalanced"
                        /\ IF is_live
                           THEN \E rs \in ScenarioResultLists(p.orders, posted) :
                                  Cycled("poll_cycle", args, p, rs,
                                         LiveApply(state, p.orders, rs))
                           ELSE Cycled("poll_cycle", args, p, << >>,
                                       DryApply(state, p.orders))

\* compute_orders called with targets of its own, and the orders applied
\* (state.rs, tests::apply_orders_sell_funds_buy).
ScenarioComputeOrders ==
    /\ pc = "scenario_loop"
    /\ call.n < MaxCalls
    /\ ~is_live
    /\ pc' = pc
    /\ UNCHANGED << trigger, last_cycle >>
    /\ \E targets \in ScenarioTargets,
          gamma \in ScenarioGammaReplies(DOMAIN state.holdings),
          held_order \in Orderings(DOMAIN state.holdings) :
         LET os == ComputeOrders(targets, state, state.budget_remaining,
                                 gamma, held_order)
             p == [ state |-> state, targets |-> targets, price_map |-> gamma,
                    budget_remaining |-> state.budget_remaining, orders |-> os ]
         IN  Cycled("compute_orders", [ targets |-> targets, gamma |-> gamma ],
                    p, << >>, ApplyOrders(state, os))

\* check_resting_orders, one order resolved: filled in full or cancelled
\* with nothing matched.
ScenarioCheckResting ==
    /\ pc = "scenario_loop"
    /\ is_live
    /\ \E i \in 1..Len(state.resting_orders) :
         LET resting == state.resting_orders[i]
         IN  \E reply \in { Reply(TRUE, [ status |-> "Matched",
                                         size_matched |-> resting.shares,
                                         price |-> resting.price ]),
                            Reply(TRUE, [ status |-> "Canceled",
                                         size_matched |-> Zero,
                                         price |-> resting.price ]) } :
               state' = CheckRestingOrder(state, resting.order_id, reply)
    /\ UNCHANGED << call, plan, orders, results, posted, pc, trigger, last_cycle,
                    balance_queries, cycle_start, config, is_live, seen_hashes,
                    trader, broker, sigint, missed_sigint, new_hashes,
                    skip_buys, order_ids, observed, unrebalanced, prev,
                    reconciled >>

\* A poll cycle that detects no new trade (poll_cycle, lines 360-375): it
\* returns before the positions are fetched.
ScenarioQuietPoll ==
    /\ pc = "scenario_loop"
    /\ call.n < MaxCalls
    /\ pc' = pc
    /\ last_cycle' = "no_new_trades"
    /\ trigger' = trigger
    /\ Cycled("poll_cycle_no_new_trades", [ positions |-> << >>, gamma |-> EmptyMap ],
              Unplanned(state), << >>, state)

ScenarioNext ==
    \/ ScenarioInitialReplication
    \/ ScenarioPollCycle
    \/ ScenarioQuietPoll
    \/ ScenarioComputeOrders
    \/ ScenarioCheckResting

ScenarioSpec == ScenarioInit /\ [][ScenarioNext]_vars

\* ------------------------------------------------------------------------
\* Properties
\* ------------------------------------------------------------------------

\* Sum of cost_usd over the orders of one side in a list of orders.
SideCost(os, side) ==
    LET OfSide(o) == o.side = side
        sel == SelectSeq(os, OfSide)
    IN  SumSeq([i \in 1..Len(sel) |-> sel[i].cost_usd])

\* A list of orders holds an order of the given side.
HasSide(os, side) == \E i \in 1..Len(os) : os[i].side = side

\* A plan is the record of a compute_orders call that took place.
Planned == plan # NoPlan

\* C1 -- Budget conservation (I2): in every reachable state,
\* budget_remaining + total_spent - total_sell_proceeds + the cost_usd of
\* the resting Buy orders equals initial_budget.
C1_BudgetConservation ==
    Add(Sub(Add(state.budget_remaining, state.total_spent),
            state.total_sell_proceeds),
        SideCost(state.resting_orders, "Buy")) = state.initial_budget

\* C1 witness: money was spent on fills and a Buy order rests with its
\* cost reserved.
C1_Witness ==
    /\ HasSide(state.resting_orders, "Buy")
    /\ Gt(state.total_spent, Zero)
    /\ Lt(state.budget_remaining, state.initial_budget)

\* The target shares a map of targets holds for an asset (0 if none).
Wanted(tgt, a) == IF a \in DOMAIN tgt THEN tgt[a] ELSE Zero

\* The plan of the rebalancing that follows the one recorded in prev is
\* at hand: its orders are being executed, or it produced none.
NextPlanReady ==
    /\ is_live
    /\ trigger = "TradeDetected"
    /\ Planned
    /\ \/ pc \in {"balance", "execute"}
       \/ pc = "wait" /\ last_cycle = "no_orders"

\* An order the previous rebalancing left Resting is still tracked by the
\* agent and Live at the venue, and the target shares of its asset are
\* what they were.
StillResting(r) ==
    /\ r.order_id \in DOMAIN broker
    /\ broker[r.order_id].status = "Live"
    /\ Position(plan.state.resting_orders, r.order_id) # 0
    /\ Wanted(TargetShares(plan.targets), r.asset) = Wanted(prev.targets, r.asset)

\* The plan holds no order for the asset.
NoOrderFor(a) == \A i \in 1..Len(plan.orders) : plan.orders[i].asset # a

\* C2 as stated -- if a live cycle leaves an order for asset a Resting and
\* the next rebalancing sees the same target shares for a while the order
\* is still Live, compute_orders emits no further order for a.
C2_NoDoubleOrder ==
    NextPlanReady =>
        \A r \in prev.rested : StillResting(r) => NoOrderFor(r.asset)

\* C2 amended -- the same, for a resting order that was placed for the
\* full difference to the target (not downsized by the budget cap) while
\* no other resting order for a was resolved in between.
C2_NoDoubleOrderFull ==
    NextPlanReady =>
        \A r \in prev.rested :
            (StillResting(r) /\ r.full /\ r.asset \notin reconciled)
                => NoOrderFor(r.asset)

\* C2 witness: the next rebalancing computes its orders while a full order
\* of the previous one still rests, with the same target shares.
C2_Witness ==
    /\ NextPlanReady
    /\ \E r \in prev.rested :
          StillResting(r) /\ r.full /\ r.asset \notin reconciled

\* C3 as stated -- Budget cap (I6): in the list compute_orders returns the
\* cost of the Buys is at most budget_remaining plus the proceeds of the
\* Sells of the same list.
C3_BudgetCap ==
    Planned =>
        Le(SideCost(plan.orders, "Buy"),
           Add(plan.budget_remaining, SideCost(plan.orders, "Sell")))

\* C3 amended -- the cost of the Buys is at most budget_remaining plus the
\* proceeds of the Sells when that amount is not negative, and no Buy is
\* emitted when it is.
C3_BudgetCapNonNegative ==
    Planned =>
        LET available == Add(plan.budget_remaining, SideCost(plan.orders, "Sell"))
        IN  IF Ge(available, Zero)
            THEN Le(SideCost(plan.orders, "Buy"), available)
            ELSE ~HasSide(plan.orders, "Buy")

\* C3 witness: a Buy was downsized to what budget_remaining and the
\* proceeds of the Sells leave.
C3_Witness ==
    /\ Planned
    /\ HasSide(plan.orders, "Sell")
    /\ \E i \in 1..Len(plan.orders) :
          /\ plan.orders[i].side = "Buy"
          /\ Lt(plan.orders[i].shares,
                Sub(Wanted(TargetShares(plan.targets), plan.orders[i].asset),
                    EffectiveHeldShares(plan.state, plan.orders[i].asset)))
    /\ SideCost(plan.orders, "Buy")
          = Add(plan.budget_remaining, SideCost(plan.orders, "Sell"))

\* C4 -- Sell-before-buy (I4): in the list compute_orders returns no Buy
\* stands at a lower index than a Sell.
C4_SellBeforeBuy ==
    Planned =>
        \A i, j \in 1..Len(plan.orders) :
            (plan.orders[i].side = "Buy" /\ plan.orders[j].side = "Sell")
                => j < i

\* C4 witness: the list holds the exit Sell of a held asset and, after
\* it, a Buy.
C4_Witness ==
    /\ Planned
    /\ \E i, j \in 1..Len(plan.orders) :
          /\ plan.orders[i].side = "Sell"
          /\ plan.orders[i].asset \notin DOMAIN TargetShares(plan.targets)
          /\ plan.orders[j].side = "Buy"

\* The difference compute_orders finds between a target and the effective
\* held shares.
Diff(target) ==
    Sub(target.target_shares, EffectiveHeldShares(plan.state, target.asset))

\* The list holds an order of the given asset, side and shares.
Emitted(asset, side, shares) ==
    \E i \in 1..Len(plan.orders) :
        /\ plan.orders[i].asset = asset
        /\ plan.orders[i].side = side
        /\ plan.orders[i].shares = shares

\* C5 -- Minimum notional (I5): every Buy compute_orders emits, a
\* downsized one included, has shares * price >= MIN_ORDER_USD, and a Sell
\* is emitted for every target below the effective held shares whatever
\* its notional value.
C5_MinimumNotional ==
    Planned =>
        /\ \A i \in 1..Len(plan.orders) :
              plan.orders[i].side = "Buy" =>
                  Ge(Mul(plan.orders[i].shares, plan.orders[i].price),
                     MIN_ORDER_USD)
        /\ \A k \in 1..Len(plan.targets) :
              Lt(Diff(plan.targets[k]), Zero) =>
                  Emitted(plan.targets[k].asset, "Sell",
                          Neg(Diff(plan.targets[k])))

\* C5 witness: a Buy of exactly MIN_ORDER_USD is emitted.
C5_Witness ==
    /\ Planned
    /\ \E i \in 1..Len(plan.orders) :
          /\ plan.orders[i].side = "Buy"
          /\ Mul(plan.orders[i].shares, plan.orders[i].price) = MIN_ORDER_USD

\* C6 as stated -- Positive holdings (I1): in every reachable state every
\* entry of holdings has shares > 0, whatever size_matched the venue
\* reports for the fills.
C6_PositiveHoldings ==
    \A a \in DOMAIN state.holdings : Gt(state.holdings[a].shares, Zero)

\* C7 as stated -- No negative effective holdings (I3): for every Sell that
\* compute_orders emits, the effective held shares of its asset minus the
\* Sell's shares are >= 0, resting Sell orders included.
C7_NoNegativeEffective ==
    Planned =>
        \A i \in 1..Len(plan.orders) :
            plan.orders[i].side = "Sell" =>
                Ge(Sub(EffectiveHeldShares(plan.state, plan.orders[i].asset),
                       plan.orders[i].shares),
                   Zero)

\* C8 -- Trade dedup: the hashes a poll cycle treats as new were observed
\* by no earlier fetch (seeding included), a cycle goes on to rebalance
\* only with such a hash, and a cycle whose fetched hashes were all
\* observed before does not rebalance.
C8_TradeDedup ==
    [][(pc = "fetch_trades" /\ pc' # pc) =>
          /\ new_hashes' \cap observed = {}
          /\ pc' = "fetch_positions" => new_hashes' # {}
          /\ RecentTrades \subseteq observed => pc' # "fetch_positions"
          /\ pc' = "wait" \/ new_hashes' = RecentTrades \ observed]_vars

\* C8 witness: a trade triggered a rebalancing and a later poll cycle
\* fetched its hash again and found nothing new.
C8_Witness ==
    /\ pc = "wait"
    /\ trigger = "TradeDetected"
    /\ last_cycle = "no_new_trades"
    /\ RecentTrades # {}
    /\ RecentTrades \subseteq observed

\* C9 as stated -- Data-source failure is retried: trades detected in a
\* cycle whose positions refetch failed still trigger a rebalancing once
\* the data source responds, so no poll cycle whose fetch succeeds ends
\* with "No new trades" while detected trades wait for their rebalancing.
C9_FailureRetried ==
    last_cycle = "no_new_trades" => unrebalanced = {}

\* The control loop is running: main is at the select or inside poll_cycle.
InLoop ==
    \/ pc \in {"wait", "check_resting", "fetch_trades", "fetch_positions"}
    \/ pc \in {"balance", "execute"} /\ trigger = "TradeDetected"

\* C10 -- In-cycle errors are contained: the control loop is left only
\* from the select, by the shutdown signal; whatever fails inside a poll
\* cycle, the loop goes on.
C10_ErrorsContained ==
    [][(InLoop /\ ~InLoop') => (pc = "wait" /\ pc' = "shutdown" /\ sigint')]_vars

\* C10 witness: the positions refetch of a poll cycle failed and the loop
\* waits for the next tick or the signal.
C10_Witness ==
    /\ pc = "wait"
    /\ last_cycle = "positions_failed"
    /\ ~sigint

\* What C13 asks of execute_orders once the balance guard has run.
BalanceGuarded ==
    pc = "execute" =>
        /\ Len(balance_queries) = IF HasSide(orders, "Buy") THEN 1 ELSE 0
        /\ skip_buys <=> /\ balance_queries # << >>
                         /\ \/ ~balance_queries[1].ok
                            \/ Lt(balance_queries[1].balance, One)
        /\ \A i \in 1..Len(results) :
              /\ (orders[i].side = "Buy" /\ skip_buys) =>
                    /\ results[i].status = "Skipped"
                    /\ results[i].error_msg = "insufficient balance"
                    /\ results[i].order_id = 0
              /\ (orders[i].side = "Sell" \/ ~skip_buys) =>
                    results[i].status # "Skipped"

\* C13 -- Balance guard: one execute_orders call queries the balance once,
\* at the start, if and only if the batch holds a Buy; when the balance is
\* below $1.00 or the query fails every Buy yields Skipped with reason
\* "insufficient balance" and nothing is posted for it, while every Sell
\* is still submitted.
C13_BalanceGuard ==
    [][/\ BalanceGuarded'
       /\ pc = "execute" => balance_queries' \in {balance_queries, << >>}
       /\ (pc = "execute" /\ Len(results') > Len(results)
              /\ results'[Len(results')].status = "Skipped")
             => (posted' = posted /\ broker' = broker)]_vars

\* C13 witness: the balance guard tripped on a batch of a Sell and a Buy;
\* the Sell was submitted and filled, the Buy skipped.
C13_Witness ==
    /\ pc = "execute"
    /\ skip_buys
    /\ \E i, j \in 1..Len(results) :
          /\ orders[i].side = "Sell" /\ results[i].status = "Filled"
          /\ orders[j].side = "Buy" /\ results[j].status = "Skipped"

\* The post of the latest execute_single_order call obtained a response:
\* some pass of the loop was answered and every pass before it met a
\* transient error.
Submitted ==
    \E k \in 1..3 :
        /\ call.args.attempts[k] = "ok"
        /\ \A j \in 1..(k - 1) : call.args.attempts[j] = "transient"

\* C11 -- Order outcome classification: a size truncating to zero, a
\* submission error and a response with success = false give Failed; a
\* response of status Matched gives Filled at the size sent, with no status
\* query; otherwise the status is queried once and Matched gives Filled with
\* the venue's sizeMatched and price, Live gives PartialFill or Resting as
\* sizeMatched is positive or zero, Canceled/Unmatched gives PartialFill or
\* Failed as sizeMatched is positive or zero, and any other status or a
\* failed query gives Filled at the size sent.
C11_Classification ==
    call.op = "execute_single_order" =>
        LET order    == call.args.order
            response == call.args.response
            reply    == call.args.reply
            result   == call.out.result
            sent     == TruncScale2(order.shares)
            Optimistic == /\ result.status = "Filled"
                          /\ result.filled_shares = sent
                          /\ result.filled_cost_usd = Mul(sent, order.price)
            Matched(status) ==
                          /\ result.status = status
                          /\ result.filled_shares = reply.size_matched
                          /\ result.filled_cost_usd =
                                Mul(reply.size_matched, reply.price)
            Nothing(status) ==
                          /\ result.status = status
                          /\ result.filled_shares = Zero
                          /\ result.filled_cost_usd = Zero
        IN  CASE sent = Zero ->
                    Nothing("Failed") /\ call.out.status_queries = 0
              [] sent # Zero /\ ~Submitted ->
                    Nothing("Failed") /\ call.out.status_queries = 0
              [] sent # Zero /\ Submitted /\ response = "rejected" ->
                    Nothing("Failed") /\ call.out.status_queries = 0
              [] sent # Zero /\ Submitted /\ response = "matched" ->
                    Optimistic /\ call.out.status_queries = 0
              [] OTHER ->
                    /\ call.out.status_queries = 1
                    /\ result.order_id = call.args.order_id
                    /\ IF ~reply.ok THEN Optimistic
                       ELSE CASE reply.status = "Matched" -> Matched("Filled")
                              [] reply.status = "Live" ->
                                    IF Gt(reply.size_matched, Zero)
                                    THEN Matched("PartialFill")
                                    ELSE Nothing("Resting")
                              [] reply.status \in {"Canceled", "Unmatched"} ->
                                    IF Gt(reply.size_matched, Zero)
                                    THEN Matched("PartialFill")
                                    ELSE Nothing("Failed")
                              [] OTHER -> Optimistic

\* C11 witness: an order of 2.125 shares was posted as 2.12 shares, the
\* venue accepted it and then reported it Unmatched with nothing matched.
C11_Witness ==
    /\ call.op = "execute_single_order"
    /\ call.args.order.shares = R(17, 8)
    /\ Submitted
    /\ call.args.response = "accepted"
    /\ call.args.reply.ok
    /\ call.args.reply.status = "Unmatched"
    /\ call.args.reply.size_matched = Zero
    /\ call.out.result.status = "Failed"
    /\ call.out.result.order_id = 1

\* C12 -- Submission retry protocol: an order is posted at most 3 times; a
\* further attempt follows only a transient error, after a wait of
\* 500ms * 2^attempt (500ms, then 1000ms); a non-transient error, or a
\* transient error on the third attempt, ends the protocol with Failed;
\* two transient failures followed by success give the normal
\* classification.
C12_RetryProtocol ==
    (call.op = "execute_single_order"
        /\ TruncScale2(call.args.order.shares) # Zero) =>
        LET attempts == call.args.attempts
            made     == call.out.attempts
            result   == call.out.result
        IN  /\ made \in 1..3
            /\ \A k \in 1..(made - 1) : attempts[k] = "transient"
            /\ Len(call.out.sleeps) = made - 1
            /\ \A k \in 1..(made - 1) : call.out.sleeps[k] = 500 * 2^(k - 1)
            /\ attempts[made] # "ok" =>
                  /\ attempts[made] # "transient" \/ made = 3
                  /\ result.status = "Failed"
                  /\ call.out.status_queries = 0
            /\ attempts[made] = "ok" =>
                  result = ExecuteSingleOrder(1, call.args.order,
                              call.args.order_id, call.args.response,
                              call.args.reply)

\* C12 witness: two transient failures, then the post goes through and the
\* order is classified Resting; the waits were 500ms and 1000ms.
C12_Witness ==
    /\ call.op = "execute_single_order"
    /\ call.args.attempts = << "transient", "transient", "ok" >>
    /\ call.out.attempts = 3
    /\ call.out.sleeps = << 500, 1000 >>
    /\ call.out.result.status = "Resting"

\* The shares of an asset in the holdings of a trading state.
HeldShares(s, asset) ==
    IF asset \in DOMAIN s.holdings THEN s.holdings[asset].shares ELSE Zero

\* The ledger of s without the entry of the given id.
LedgerWithout(s, order_id) ==
    SelectSeq(s.resting_orders, LAMBDA r : r.order_id # order_id)

\* C14 -- check_resting_orders, for each order id of the ledger snapshot:
\* a Matched reply, or Canceled/Unmatched with sizeMatched > 0, removes the
\* entry through resolve_resting_fill and moves the fill into the holdings;
\* Canceled/Unmatched with sizeMatched = 0 removes it through
\* resolve_resting_cancel and refunds a Buy's reservation; a Live reply, an
\* unknown status or a failed query leaves the whole TradingState unchanged.
C14_CheckResting ==
    call.op = "check_resting_order" =>
        LET before == call.before
            id     == call.args.order_id
            reply  == call.args.reply
            entry  == before.resting_orders[Position(before.resting_orders, id)]
            cancelled == reply.ok /\ reply.status \in {"Canceled", "Unmatched"}
            filled == \/ reply.ok /\ reply.status = "Matched"
                      \/ cancelled /\ Gt(reply.size_matched, Zero)
            fill_cost == Mul(reply.size_matched, reply.price)
        IN  CASE filled ->
                    /\ state = ResolveRestingFill(before, id, reply.size_matched,
                                                  reply.price)
                    /\ state.resting_orders = LedgerWithout(before, id)
                    /\ entry.side = "Buy" =>
                          /\ HeldShares(state, entry.asset) =
                                Add(HeldShares(before, entry.asset), reply.size_matched)
                          /\ state.budget_remaining =
                                Sub(Add(before.budget_remaining, entry.cost_usd),
                                    fill_cost)
                    /\ entry.side = "Sell" =>
                          /\ \/ HeldShares(state, entry.asset) =
                                   Sub(HeldShares(before, entry.asset),
                                       reply.size_matched)
                             \/ /\ HeldShares(state, entry.asset) = Zero
                                /\ Le(HeldShares(before, entry.asset),
                                      reply.size_matched)
                          /\ state.budget_remaining =
                                Add(before.budget_remaining, fill_cost)
              [] cancelled /\ ~filled ->
                    /\ state = ResolveRestingCancel(before, id)
                    /\ state.resting_orders = LedgerWithout(before, id)
                    /\ state.holdings = before.holdings
                    /\ state.budget_remaining =
                          IF entry.side = "Buy"
                          THEN Add(before.budget_remaining, entry.cost_usd)
                          ELSE before.budget_remaining
              [] OTHER -> state = before

\* C14 witness: a resting Buy of an asset not held was reported Matched
\* with 2 shares; the entry is gone and the holding holds the 2 shares.
C14_Witness ==
    /\ call.op = "check_resting_order"
    /\ call.args.reply.ok
    /\ call.args.reply.status = "Matched"
    /\ call.args.reply.size_matched = R(2, 1)
    /\ \E i \in 1..Len(call.before.resting_orders) :
          LET entry == call.before.resting_orders[i]
          IN  /\ entry.order_id = call.args.order_id
              /\ entry.side = "Buy"
              /\ entry.asset \notin DOMAIN call.before.holdings
              /\ entry.asset \in DOMAIN state.holdings
              /\ state.holdings[entry.asset].shares = R(2, 1)
    /\ call.args.order_id \notin RestingIds(state)

\* The latest call applied the execution results of a batch.
AppliedResults == call.op = "apply_execution_results"

\* The larger of two values.
Max(x, y) == IF Ge(x, y) THEN x ELSE y

\* C15 -- Partial-fill reconciliation: a PartialFill result with f filled
\* shares for an order of s shares at price p (0 < f < s, non-empty order
\* id) adds f shares to the holdings (Buy) or removes f shares from them
\* (Sell) and registers exactly one RestingOrder keyed by the returned order
\* id, with s - f shares at price p; for a Buy budget_remaining decreases by
\* filled_cost_usd + (s - f) * p.
C15_PartialFill ==
    AppliedResults =>
        LET before == call.before
            os     == call.args.orders
            rs     == call.args.results
            Partial(i) == /\ rs[i].status = "PartialFill"
                          /\ Gt(rs[i].filled_shares, Zero)
                          /\ Lt(rs[i].filled_shares, os[i].shares)
                          /\ rs[i].order_id # 0
            Entries(id) == SelectSeq(state.resting_orders,
                                     LAMBDA r : r.order_id = id)
        IN  \A i \in 1..Len(rs) : Partial(i) =>
              LET o == os[i]
                  f == rs[i].filled_shares
                  remainder == Sub(o.shares, f)
              IN  /\ Entries(rs[i].order_id) =
                        << [ order_id |-> rs[i].order_id, asset |-> o.asset,
                             side |-> o.side, shares |-> remainder,
                             price |-> o.price,
                             cost_usd |-> Mul(remainder, o.price) ] >>
                  /\ Len(rs) = 1 =>
                        /\ Len(state.resting_orders) =
                              Len(before.resting_orders) + 1
                        /\ o.side = "Buy" =>
                              /\ HeldShares(state, o.asset) =
                                    Add(HeldShares(before, o.asset), f)
                              /\ state.budget_remaining =
                                    Sub(before.budget_remaining,
                                        Add(rs[i].filled_cost_usd,
                                            Mul(remainder, o.price)))
                        /\ o.side = "Sell" =>
                              HeldShares(state, o.asset) =
                                 Max(Sub(HeldShares(before, o.asset), f), Zero)

\* C15 witness: 2 of the 4 shares of a Buy at 0.50 were filled at 0.25;
\* 2 shares rest at 0.50 and the budget is lower by 0.50 + 1.00.
C15_Witness ==
    /\ AppliedResults
    /\ Len(call.args.orders) = 1
    /\ call.args.orders[1].side = "Buy"
    /\ call.args.orders[1].price = Half
    /\ call.args.results[1].status = "PartialFill"
    /\ call.args.results[1].filled_shares = R(2, 1)
    /\ \E i \in 1..Len(state.resting_orders) :
          /\ state.resting_orders[i].order_id = call.args.results[1].order_id
          /\ state.resting_orders[i].shares = R(2, 1)
          /\ state.resting_orders[i].price = Half
    /\ state.budget_remaining = Sub(call.before.budget_remaining, R(3, 2))

\* Every result of the latest apply_execution_results call is Filled with
\* the shares and the cost of its order.
AllFilledAsOrdered ==
    /\ AppliedResults
    /\ \A i \in 1..Len(call.args.results) :
          /\ call.args.results[i].status = "Filled"
          /\ call.args.results[i].order_index = i
          /\ call.args.results[i].filled_shares = call.args.orders[i].shares
          /\ call.args.results[i].filled_cost_usd = call.args.orders[i].cost_usd

\* C16 -- R4: apply_execution_results(orders, results), each result i being
\* Filled with filled_shares = orders[i].shares and filled_cost_usd =
\* orders[i].cost_usd, ends in exactly the TradingState apply_orders(orders)
\* ends in (holdings, budget, totals, realized P&L, counters, ledger).
C16_FilledEqualsApplyOrders ==
    AllFilledAsOrdered => state = ApplyOrders(call.before, call.args.orders)

\* C16 witness: a Sell of a held asset and a Buy, both Filled as ordered,
\* were applied and changed the state.
C16_Witness ==
    /\ AllFilledAsOrdered
    /\ Len(call.args.orders) = 2
    /\ call.args.orders[1].side = "Sell"
    /\ call.args.orders[1].asset \in DOMAIN call.before.holdings
    /\ call.args.orders[2].side = "Buy"
    /\ state.realized_pnl # call.before.realized_pnl
    /\ state.total_orders = call.before.total_orders + 2
    /\ state = ApplyOrders(call.before, call.args.orders)

\* The latest two calls were add_resting_order of an order of the given
\* side and then the given operation on the same order id.
AddedThen(side, op) ==
    /\ call.prev.op = "add_resting_order"
    /\ call.prev.args.order.side = side
    /\ call.op = op
    /\ call.args.order_id = call.prev.args.order.order_id

\* C17 -- R1: add_resting_order of a Buy followed by resolve_resting_cancel
\* of the same order id restores budget_remaining to its value before the
\* placement and removes the order from the ledger; for a Sell neither step
\* changes budget_remaining.
C17_AddCancelRoundTrip ==
    /\ AddedThen("Buy", "resolve_resting_cancel") =>
          /\ state.budget_remaining = call.prev.before.budget_remaining
          /\ call.args.order_id \notin RestingIds(state)
          /\ state = call.prev.before
    /\ AddedThen("Sell", "resolve_resting_cancel") =>
          /\ call.before.budget_remaining = call.prev.before.budget_remaining
          /\ state.budget_remaining = call.before.budget_remaining
          /\ call.args.order_id \notin RestingIds(state)
          /\ state = call.prev.before

\* C17 witness: a Buy was placed on the book, which reserved its cost, and
\* then cancelled.
C17_Witness ==
    /\ AddedThen("Buy", "resolve_resting_cancel")
    /\ Gt(call.prev.args.order.cost_usd, Zero)
    /\ call.before.budget_remaining =
          Sub(call.prev.before.budget_remaining, call.prev.args.order.cost_usd)
    /\ call.args.order_id \in RestingIds(call.before)
    /\ state.budget_remaining = call.prev.before.budget_remaining

\* C18 -- R2: add_resting_order of a Buy followed by resolve_resting_fill of
\* the same order id leaves budget_remaining lower than before the
\* placement by exactly filled_cost = filled_shares * fill_price, at the
\* reserved price and at any other fill price.
C18_AddFillNetCost ==
    AddedThen("Buy", "resolve_resting_fill") =>
        LET filled_cost == Mul(call.args.filled_shares, call.args.fill_price)
        IN  /\ state.budget_remaining =
                  Sub(call.prev.before.budget_remaining, filled_cost)
            /\ state.total_spent = Add(call.prev.before.total_spent, filled_cost)
            /\ call.args.order_id \notin RestingIds(state)

\* C18 witness: a Buy of 4 shares reserved at 0.50 was filled in full at
\* 0.25; the net reduction is 1.00, not the 2.00 reserved.
C18_Witness ==
    /\ AddedThen("Buy", "resolve_resting_fill")
    /\ call.prev.args.order.shares = R(4, 1)
    /\ call.prev.args.order.price = Half
    /\ call.args.filled_shares = R(4, 1)
    /\ call.args.fill_price = Quarter
    /\ call.before.budget_remaining =
          Sub(call.prev.before.budget_remaining, R(2, 1))
    /\ state.budget_remaining = Sub(call.prev.before.budget_remaining, One)

\* The results of the latest apply_execution_results call that are
\* neither Failed nor Skipped.
Effective ==
    SelectSeq(call.args.results,
              LAMBDA r : r.status \notin {"Failed", "Skipped"})

\* C20 -- Failed and Skipped results are no-ops: apply_execution_results
\* leaves holdings, budget, totals, realized P&L, counters and the resting
\* ledger as they are for every Failed or Skipped result, also when such
\* results are mixed with others in the batch.
C20_FailedSkippedNoOp ==
    AppliedResults =>
        /\ Effective = << >> => state = call.before
        /\ state = ApplyExecutionResults(call.before, call.args.orders, Effective)
        /\ state.total_orders =
              call.before.total_orders
                + Len(SelectSeq(Effective,
                                LAMBDA r : r.status \in {"Filled", "PartialFill"}))
        /\ Len(state.resting_orders) =
              Len(call.before.resting_orders)
                + Len(SelectSeq(Effective,
                                LAMBDA r : r.status \in {"Resting", "PartialFill"}))

\* C20 witness: a batch of two orders, the first Failed after the venue
\* gave it an id, the second Filled; only the second changed the state.
C20_Witness ==
    /\ AppliedResults
    /\ Len(call.args.results) = 2
    /\ call.args.results[1].status = "Failed"
    /\ call.args.results[1].order_id # 0
    /\ call.args.results[2].status = "Filled"
    /\ state # call.before
    /\ state.total_orders = call.before.total_orders + 1
    /\ state.resting_orders = call.before.resting_orders

\* The step that ends a poll cycle in which no new trade was detected.
QuietCycleEnds ==
    /\ pc = "fetch_trades"
    /\ pc' = "wait"
    /\ last_cycle' = "no_new_trades"

\* No resting order was filled in the poll cycle in progress: every fill
\* counts as an order.
NoRestingFill == state.total_orders = cycle_start.total_orders

\* The cycle in progress issued no orders and emitted no event.
NoOrdersNoEvent ==
    /\ orders' = << >>
    /\ plan' = NoPlan
    /\ posted' = posted
    /\ state'.total_events = cycle_start.total_events
    /\ state'.total_orders = cycle_start.total_orders

\* The resting orders of the cycle's start that are no longer in s.
Resolved(s) ==
    SelectSeq(cycle_start.resting_orders,
              LAMBDA r : r.order_id \notin RestingIds(s))

\* What the resting Buys among a sequence of resting orders reserve.
Reserved(rs) ==
    LET buys == SelectSeq(rs, LAMBDA r : r.side = "Buy")
    IN  SumSeq([i \in 1..Len(buys) |-> buys[i].cost_usd])

\* C19 as stated -- R3: a poll cycle that observes no new target trades
\* and no resting order filled produces zero orders and emits no event,
\* and leaves holdings, budget_remaining and the resting ledger unchanged.
C19_QuietCycle ==
    [][(QuietCycleEnds /\ NoRestingFill) =>
          /\ NoOrdersNoEvent
          /\ state'.holdings = cycle_start.holdings
          /\ state'.budget_remaining = cycle_start.budget_remaining
          /\ state'.resting_orders = cycle_start.resting_orders]_vars

\* C19 amended -- R3: a poll cycle that observes no new target trades and
\* no resting order filled produces zero orders and emits no event and
\* leaves the holdings unchanged; the resting orders the venue reports
\* cancelled leave the ledger and the reservations of the Buys among them
\* return to budget_remaining, so that budget_remaining and the ledger are
\* unchanged when no resting order was cancelled either.
C19_QuietCycleUpToCancels ==
    [][(QuietCycleEnds /\ NoRestingFill) =>
          /\ NoOrdersNoEvent
          /\ state'.holdings = cycle_start.holdings
          /\ state'.resting_orders =
                SelectSeq(cycle_start.resting_orders,
                          LAMBDA r : r.order_id \in RestingIds(state'))
          /\ state'.budget_remaining =
                Add(cycle_start.budget_remaining, Reserved(Resolved(state')))
          /\ Resolved(state') = << >> =>
                /\ state'.budget_remaining = cycle_start.budget_remaining
                /\ state'.resting_orders = cycle_start.resting_orders]_vars

\* C19 witness: a poll cycle of the live agent has ended with no new
\* trade, no fill and no order, an order still resting on the book.
C19_Witness ==
    /\ is_live
    /\ pc = "wait"
    /\ last_cycle = "no_new_trades"
    /\ state.resting_orders # << >>
    /\ state.total_orders = 0
    /\ orders = << >>

\* A poll cycle starts.
CycleStarts == pc = "wait" /\ pc' \in {"check_resting", "fetch_trades"}

\* C21 -- Shutdown does not interrupt a cycle: a SIGINT that arrives while
\* a poll cycle is in progress does not interrupt it; the batch is
\* executed and reconciled first, and the shutdown procedure runs after,
\* and only after, the cycle completes (no further cycle is started); a
\* SIGINT arriving during the poll sleep ends the loop without starting
\* another cycle.
C21_ShutdownAfterCycle ==
    [][/\ (InLoop /\ pc # "wait") => pc' \notin {"shutdown", "summary", "done"}
       /\ (~missed_sigint /\ missed_sigint') =>
             (pc' = pc /\ state' = state /\ orders' = orders /\ results' = results)
       /\ missed_sigint => ~CycleStarts
       /\ (pc = "wait" /\ sigint') => pc' = "shutdown"]_vars

\* C22 -- Shutdown procedure: after the shutdown signal, in live mode the
\* resting orders are cancelled in a batch and resolve_resting_cancel is
\* applied to each, so that the ledger is empty and every resting Buy's
\* reservation is back in budget_remaining when the ExitSummary is
\* computed; the ExitSummary is emitted exactly once and the process
\* terminates, also when the batch cancel fails.
C22_ShutdownProcedure ==
    [][/\ pc = "shutdown" =>
             /\ ENABLED CancelResting
             /\ pc' = "summary"
             /\ is_live =>
                   /\ state'.resting_orders = << >>
                   /\ state'.budget_remaining =
                         Add(state.budget_remaining, Reserved(state.resting_orders))
                   /\ state'.holdings = state.holdings
                   /\ state'.total_orders = state.total_orders
             /\ ~is_live => state' = state
       /\ pc = "summary" =>
             /\ ENABLED ExitSummary
             /\ pc' = "done"
             /\ state' = state
             /\ is_live => state.resting_orders = << >>
       /\ pc = "done" => FALSE
       /\ pc' = "done" => pc = "summary"
       /\ pc' = "summary" => pc = "shutdown"]_vars

\* C22 witness: the live agent was shut down with a Buy resting; the batch
\* cancel failed (the venue still has the order), the ledger is empty, the
\* reservation is refunded and the summary was emitted.
C22_Witness ==
    /\ is_live
    /\ pc = "done"
    /\ sigint
    /\ broker # EmptyMap
    /\ \E id \in DOMAIN broker : broker[id].side = "Buy"
    /\ state.resting_orders = << >>
    /\ state.holdings = EmptyMap
    /\ state.budget_remaining = Budget

\* The arguments of the documented end-to-end scenarios 1 and 2.
EndToEndArgs ==
    [ budget |-> R(1000, 1), copy_pct |-> Half, max_trade_pct |-> R(3, 10) ]

\* The target's positions of scenario 1: A worth 300 at 0.40, B worth 100
\* at 0.80.
CleanReplicationPositions ==
    << Pos("A", R(750, 1), Cents(40), Cents(40)),
       Pos("B", R(125, 1), Cents(80), Cents(80)) >>

\* The dry-run initial replication of scenario 1 has just run.
CleanReplication ==
    /\ ~is_live
    /\ config = EndToEndArgs
    /\ call.n = 1
    /\ call.op = "initial_replication"
    /\ call.before = New(R(1000, 1))
    /\ call.args.positions = CleanReplicationPositions

\* C24 -- Scenario 1 (clean replication): in dry-run with budget 1000,
\* copy_pct 0.5, max_trade_pct 0.3 and an empty state, the initial
\* replication for a target holding A (value 300, price 0.40) and B (value
\* 100, price 0.80) produces exactly Buy 750@0.40 for A (300, the 30% cap)
\* and then Buy 156.25@0.80 for B (125); it ends with budget_remaining 575
\* and holdings A: 750, B: 156.25.
C24_CleanReplication ==
    CleanReplication =>
        /\ call.out = << Order("A", "Buy", R(750, 1), Cents(40)),
                         Order("B", "Buy", R(15625, 100), Cents(80)) >>
        /\ call.out[1].cost_usd = R(300, 1)
        /\ call.out[2].cost_usd = R(125, 1)
        /\ state.budget_remaining = R(575, 1)
        /\ DOMAIN state.holdings = {"A", "B"}
        /\ state.holdings["A"].shares = R(750, 1)
        /\ state.holdings["B"].shares = R(15625, 100)
        /\ state.resting_orders = << >>

\* C24 witness: scenario 1 has run and left the two holdings.
C24_Witness ==
    /\ CleanReplication
    /\ Len(call.out) = 2
    /\ DOMAIN state.holdings = {"A", "B"}

\* The dry-run poll cycle of scenario 2 has just run: it started from the
\* end state of scenario 1, the target holding only B (value 100, price
\* 0.80) and the oracle quoting 0.45 for A.
TargetExit ==
    /\ ~is_live
    /\ config = EndToEndArgs
    /\ call.n = 2
    /\ call.op = "poll_cycle"
    /\ call.prev.op = "initial_replication"
    /\ call.prev.args.positions = CleanReplicationPositions
    /\ call.before.budget_remaining = R(575, 1)
    /\ DOMAIN call.before.holdings = {"A", "B"}
    /\ call.args.positions = << Pos("B", R(125, 1), Cents(80), Cents(80)) >>
    /\ call.args.gamma = [a \in {"A"} |-> Cents(45)]

\* C23 as stated -- Scenario 2 (target exit): the cycle produces exactly
\* one order, Sell 750@0.45 for A, and no Buy for B; the final state has
\* holdings {B: 156.25}, realized_pnl 37.50 and budget_remaining 912.50.
C23_TargetExit ==
    TargetExit =>
        /\ call.out = << Order("A", "Sell", R(750, 1), Cents(45)) >>
        /\ DOMAIN state.holdings = {"B"}
        /\ state.holdings["B"].shares = R(15625, 100)
        /\ state.realized_pnl = R(3750, 100)
        /\ state.budget_remaining = R(91250, 100)

\* C23 amended -- Scenario 2 (target exit): B is now the whole target
\* portfolio (weight 1), so its target is min(1000 * 0.5, 0.3 * 1000) = 300,
\* that is 375 shares.  The cycle produces Sell 750@0.45 for A (proceeds
\* 337.50) and then Buy 218.75@0.80 for B (175); the final state has
\* holdings {B: 375}, realized_pnl 37.50 and budget_remaining 737.50.
C23_TargetExitWithBuy ==
    TargetExit =>
        /\ plan.targets[1].target_shares = R(375, 1)
        /\ call.out = << Order("A", "Sell", R(750, 1), Cents(45)),
                         Order("B", "Buy", R(21875, 100), Cents(80)) >>
        /\ call.out[1].cost_usd = R(33750, 100)
        /\ call.out[2].cost_usd = R(175, 1)
        /\ DOMAIN state.holdings = {"B"}
        /\ state.holdings["B"].shares = R(375, 1)
        /\ state.realized_pnl = R(3750, 100)
        /\ state.budget_remaining = R(73750, 100)

\* C23 witness: scenario 2 has run, A is sold and B is held.
C23_Witness ==
    /\ TargetExit
    /\ call.out # << >>
    /\ call.out[1].side = "Sell"
    /\ "A" \notin DOMAIN state.holdings

\* compute_orders has just been called in the state of the sell-funds-buy
\* case (no cash, A = 10 @ 0.50 held) with B = 5 shares @ 0.40 as the only
\* target and 0.50 as the price of A, and its orders were applied.
SellFundsBuy ==
    /\ ~is_live
    /\ call.op = "compute_orders"
    /\ call.before.budget_remaining = Zero
    /\ call.before.resting_orders = << >>
    /\ DOMAIN call.before.holdings = {"A"}
    /\ call.before.holdings["A"].shares = R(10, 1)
    /\ call.before.holdings["A"].avg_cost = Half
    /\ call.args.targets = << Target("B", R(5, 1), Cents(40)) >>
    /\ call.args.gamma = [a \in {"A"} |-> Half]

\* C25 -- Sell-funds-buy: with budget_remaining = 0, A = 10 @ 0.50 held and
\* B = 5 shares @ 0.40 the only target, compute_orders returns Sell 10@0.50
\* then Buy 5@0.40 and applying them leaves budget_remaining = 3; whenever
\* a batch of compute_orders is applied, budget_remaining becomes the
\* previous budget_remaining plus the sell proceeds minus the buy costs.
C25_SellFundsBuy ==
    /\ SellFundsBuy =>
          /\ call.out = << Order("A", "Sell", R(10, 1), Half),
                           Order("B", "Buy", R(5, 1), Cents(40)) >>
          /\ state.budget_remaining = R(3, 1)
    /\ (~is_live /\ call.n > 0) =>
          state.budget_remaining =
              Sub(Add(call.before.budget_remaining, SideCost(call.out, "Sell")),
                  SideCost(call.out, "Buy"))

\* C25 witness: the sell-funds-buy batch was applied; the Buy cost more
\* than the cash there was before the Sell.
C25_Witness ==
    /\ SellFundsBuy
    /\ Len(call.out) = 2
    /\ Gt(call.out[2].cost_usd, call.before.budget_remaining)
    /\ DOMAIN state.holdings = {"B"}

\* A rebalancing cycle has just run with no active position of the target.
EmptyTarget ==
    /\ call.op \in {"initial_replication", "poll_cycle"}
    /\ call.args.positions = << >>

\* The assets the orders of the latest cycle are for.
OrderedAssets == { call.out[i].asset : i \in 1..Len(call.out) }

\* C26 as stated -- Empty target portfolio: whenever the target's active
\* portfolio is empty, a rebalancing cycle (initial replication or
\* steady-state) produces zero orders, whatever the agent holds.
C26_EmptyTargetNoOrders ==
    EmptyTarget => call.out = << >>

\* C26 amended -- Empty target portfolio: the cycle produces no Buy; the
\* initial replication produces zero orders; a steady-state cycle produces
\* exactly one exit Sell for each held asset that has positive effective
\* shares and a price from the oracle, for all the effective shares at
\* that price, and zero orders when there is no such asset.
C26_EmptyTargetOnlyExits ==
    EmptyTarget =>
        /\ \A i \in 1..Len(call.out) : call.out[i].side = "Sell"
        /\ call.op = "initial_replication" => call.out = << >>
        /\ call.op = "poll_cycle" =>
              /\ OrderedAssets =
                    { a \in DOMAIN call.before.holdings :
                        /\ Gt(call.before.holdings[a].shares, Zero)
                        /\ Gt(EffectiveHeldShares(call.before, a), Zero)
                        /\ a \in DOMAIN call.args.gamma }
              /\ Len(call.out) = Cardinality(OrderedAssets)
              /\ \A i \in 1..Len(call.out) :
                    /\ call.out[i].shares =
                          EffectiveHeldShares(call.before, call.out[i].asset)
                    /\ call.out[i].price = call.args.gamma[call.out[i].asset]

\* C26 witness: a poll cycle found the target's portfolio empty and sold a
\* holding at the oracle's price.
C26_Witness ==
    /\ EmptyTarget
    /\ call.op = "poll_cycle"
    /\ call.before.holdings # EmptyMap
    /\ call.out # << >>
    /\ call.out[1].side = "Sell"

\* A rebalancing cycle has just run with --copy-percentage 0.
ZeroCopyCycle ==
    /\ config.copy_pct = Zero
    /\ call.op \in {"initial_replication", "poll_cycle"}

CycleOps == {"initial_replication", "poll_cycle"}

\* The assets the target holds in the cycle recorded in c.
TargetAssets(c) ==
    { c.args.positions[i].asset : i \in 1..Len(c.args.positions) }

\* The price map the cycle recorded in c hands to compute_orders.
PriceMapOf(c) ==
    IF c.op = "poll_cycle"
    THEN BuildExitPriceMap(BuildPriceMap(c.args.positions),
                           DOMAIN c.before.holdings, c.args.gamma)
    ELSE EmptyMap

\* In the cycle recorded in c the asset is held, is absent from the
\* targets and has no price.
ExitUnpriced(c, a) ==
    /\ c.op \in CycleOps
    /\ a \in DOMAIN c.before.holdings
    /\ Gt(c.before.holdings[a].shares, Zero)
    /\ Gt(EffectiveHeldShares(c.before, a), Zero)
    /\ a \notin TargetAssets(c)
    /\ a \notin DOMAIN PriceMapOf(c)

\* The asset is still held, with no resting Sell covering it.
StillHeld(a) ==
    /\ a \in DOMAIN state.holdings
    /\ Gt(state.holdings[a].shares, Zero)
    /\ Gt(EffectiveHeldShares(state, a), Zero)

SteadyStateOrders(c, gamma, held_order) ==
    LET active_prices == BuildPriceMap(c.args.positions)
        price_map == BuildExitPriceMap(active_prices, DOMAIN c.before.holdings,
                                       gamma)
    IN  Rebalance(c.before, c.args.positions, price_map, held_order,
                  config.copy_pct, config.max_trade_pct).orders

\* C29 -- Initial replication uses the rebalancing logic of a steady-state
\* cycle: for the same target positions, the same TradingState (live-seeded
\* holdings the target does not hold included) and the same available
\* prices, the initial replication produces the order list a steady-state
\* cycle would produce.
C29_InitialAsSteadyState ==
    call.op = "initial_replication" =>
        \A gamma \in ScenarioGammaReplies(DOMAIN call.before.holdings
                        \ DOMAIN BuildPriceMap(call.args.positions)) :
            \E held_order \in Orderings(DOMAIN call.before.holdings) :
                call.out = SteadyStateOrders(call, gamma, held_order)

\* C30 -- Live sell-before-buy budget invariant: in live mode, for a cycle
\* that starts with budget_remaining >= 0, budget_remaining is still >= 0
\* after execute_orders and apply_execution_results: the cost of the Buys
\* recorded as filled or reserved never exceeds the starting
\* budget_remaining plus the proceeds of the Sells that actually filled,
\* also when Sells end Resting, Failed or partially filled.
C30_LiveBudgetInvariant ==
    [][(is_live /\ pc = "execute" /\ pc' # "execute"
          /\ Ge(state.budget_remaining, Zero)) =>
             Ge(state'.budget_remaining, Zero)]_vars

\* C31 -- Resting ledger holds only non-terminal orders: an order is
\* added to the resting ledger by the reconciliation only if the venue
\* reported it as Live when the executor classified it; an order reported
\* as Canceled or Unmatched is never added.
C31_RestingOnlyLive ==
    [][(is_live /\ pc = "execute" /\ pc' # "execute") =>
          \A i \in 1..Len(state'.resting_orders) :
              LET order_id == state'.resting_orders[i].order_id
              IN  Position(state.resting_orders, order_id) = 0 =>
                      /\ order_id \in DOMAIN broker
                      /\ broker[order_id].status = "Live"]_vars

\* The results of the batch apply no shares: every one is Failed, Skipped
\* or a Filled or PartialFill with filled_shares = 0, and one of the
\* latter is among them.
OnlyZeroFills ==
    /\ \E i \in 1..Len(results) :
          /\ results[i].status \in {"Filled", "PartialFill"}
          /\ results[i].filled_shares = Zero
    /\ \A i \in 1..Len(results) :
          \/ results[i].status \in {"Failed", "Skipped"}
          \/ /\ results[i].status \in {"Filled", "PartialFill"}
             /\ results[i].filled_shares = Zero

\* C32 -- Zero-size fills change nothing: apply_execution_results leaves
\* holdings, budget_remaining, total_spent, total_sell_proceeds and the
\* three order counters unchanged for a Filled or PartialFill result with
\* filled_shares = 0.
C32_ZeroFillNoOp ==
    [][(is_live /\ pc = "execute" /\ pc' # "execute" /\ OnlyZeroFills) =>
          /\ state'.holdings = state.holdings
          /\ state'.budget_remaining = state.budget_remaining
          /\ state'.total_spent = state.total_spent
          /\ state'.total_sell_proceeds = state.total_sell_proceeds
          /\ state'.total_orders = state.total_orders
          /\ state'.total_buy_orders = state.total_buy_orders
          /\ state'.total_sell_orders = state.total_sell_orders]_vars

\* The order ids of the results of orders that reached the venue are in
\* the order of the list: the venue issued them one after the other.
SubmittedInListOrder(rs) ==
    \A i, j \in 1..Len(rs) :
        (i < j /\ rs[i].order_id # 0 /\ rs[j].order_id # 0) =>
            rs[i].order_id < rs[j].order_id

QueuedBuys == TargetBuys(plan.targets, plan.state)

\* The buys of the latest plan's output.
EmittedBuys == SelectSeq(plan.orders, LAMBDA o : o.side = "Buy")

\* The amount available when the k-th queued buy is looked at, the buys
\* before it having been emitted in full.
AvailableAt(k) ==
    Sub(Add(plan.budget_remaining, SideCost(plan.orders, "Sell")),
        SumSeq([j \in 1..(k - 1) |-> QueuedBuys[j].cost_usd]))

\* The queued buys whose cost exceeds the amount available for them.
Oversized == { k \in 1..Len(QueuedBuys) :
                 Gt(QueuedBuys[k].cost_usd, AvailableAt(k)) }

FirstOversized == CHOOSE k \in Oversized : \A j \in Oversized : k <= j

\* C34 -- Budget-cap downsizing: the buys are emitted in full in target
\* order up to the first whose cost exceeds the amount available; that one
\* is emitted with a cost of exactly the amount available (shares =
\* available / price) if the amount is at least $1.00 and not at all
\* otherwise, and no Buy follows it: at most one Buy is downsized and it
\* is the last order.
C34_BudgetCapDownsizing ==
    IF Oversized = {}
    THEN EmittedBuys = QueuedBuys
    ELSE LET k == FirstOversized
             available == AvailableAt(k)
             buy == QueuedBuys[k]
         IN  IF Ge(available, MIN_ORDER_USD)
             THEN /\ EmittedBuys = SubSeq(QueuedBuys, 1, k - 1)
                       \o << [buy EXCEPT !.shares = Div(available, buy.price),
                                         !.cost_usd = available] >>
                  /\ plan.orders[Len(plan.orders)] = EmittedBuys[k]
             ELSE EmittedBuys = SubSeq(QueuedBuys, 1, k - 1)

\* The target is $10 at price 0.50 and the budget $5: the Buy is
\* downsized to 10 shares, and a second queued Buy is dropped.
C34_Witness ==
    /\ call.op = "compute_orders"
    /\ plan.budget_remaining = R(5, 1)
    /\ Len(QueuedBuys) = 2
    /\ QueuedBuys[1].cost_usd = R(10, 1)
    /\ plan.orders = << Order("A", "Buy", R(10, 1), Half) >>

\* The shares a step moved into or out of the holding of an asset.
SharesMoved(asset) ==
    LET before == HeldShares(state, asset)
        after  == HeldShares(state', asset)
    IN  IF Ge(after, before) THEN Sub(after, before) ELSE Sub(before, after)

\* C35 -- No fill is counted twice: the shares applied to the holdings for
\* one order, at its classification and at its later reconciliation by
\* check_resting_orders together, never exceed the size of the order.
\* When check_resting_orders resolves an order, the ledger holds what was
\* left of it after the classification, so the shares applied before are
\* the size less the resting shares.
C35_NoDoubleCount ==
    [][(pc = "check_resting" /\ order_ids # << >>
          /\ Position(state'.resting_orders, Head(order_ids)) = 0) =>
          LET order_id == Head(order_ids)
              resting  == state.resting_orders[Position(state.resting_orders, order_id)]
              size     == broker[order_id].size
              applied_before == Sub(size, resting.shares)
          IN  Le(Add(applied_before, SharesMoved(resting.asset)), size)]_vars

\* The shares of the resting Sells for an asset in a trading state.
RestingSellShares(s, asset) ==
    LET sells == SelectSeq(s.resting_orders,
                           LAMBDA r : r.asset = asset /\ r.side = "Sell")
    IN  SumSeq([i \in 1..Len(sells) |-> sells[i].shares])

\* C36 -- Sells are backed by real holdings: every Sell compute_orders
\* emits is for an asset that is held and for no more shares than the
\* holding less the shares of the resting Sells for the asset; shares that
\* exist only as a resting Buy are never sold.
C36_SellsBacked ==
    \A i \in 1..Len(plan.orders) :
        LET o == plan.orders[i]
        IN  o.side = "Sell" =>
              /\ o.asset \in DOMAIN plan.state.holdings
              /\ Le(o.shares, Sub(HeldShares(plan.state, o.asset),
                                  RestingSellShares(plan.state, o.asset)))

\* The orders the agent posted that are open at the venue and not in the
\* resting ledger.
Untracked ==
    { id \in DOMAIN broker :
        /\ broker[id].status \in {"Live", "Delayed"}
        /\ id \notin RestingIds(state) }

\* main is between two batches: no posted order awaits its reconciliation
\* and the shutdown has not cancelled anything yet.
BetweenBatches ==
    pc \in {"seed_dedup", "wait", "check_resting", "fetch_trades",
            "fetch_positions", "shutdown"}

\* C37 as stated -- No orphaned open orders: in live mode every order the
\* agent posted that is still open at the venue is in the resting ledger,
\* an order classified optimistically as Filled included.
C37_NoOrphans ==
    (is_live /\ BetweenBatches) => Untracked = {}

\* The result was classified Filled on the optimistic arm: the status
\* query failed, or the status was neither Matched, Live, Canceled nor
\* Unmatched.
Optimistic(result) ==
    /\ result.status = "Filled"
    /\ \/ result.error_msg = "status check failed"
       \/ broker[result.order_id].status = "Delayed"

\* C37 -- Open orders are tracked unless classified optimistically: an
\* order of a batch that is open at the venue and missing from the ledger
\* after the reconciliation was classified Filled on the optimistic arm;
\* no other step of a cycle leaves an open order untracked; the shutdown
\* puts every id of the ledger in the batch cancel, after which the ledger
\* is empty and, unless the cancel failed, none of them is left at the
\* venue.
C37_TrackedUnlessOptimistic ==
    [][/\ (pc = "execute" /\ pc' \notin {"execute", "killed"}) =>
             /\ Untracked' \subseteq Untracked
             /\ \A i \in 1..Len(results) :
                   results[i].order_id \in Untracked' => Optimistic(results[i])
       /\ (pc = "execute" /\ pc' = "execute") =>
             Untracked' \ Untracked \subseteq {posted'}
       /\ pc \notin {"execute", "shutdown"} => Untracked' \subseteq Untracked
       /\ pc = "shutdown" =>
             /\ state'.resting_orders = << >>
             /\ \/ broker' = broker
                \/ DOMAIN broker' = DOMAIN broker \ RestingIds(state)]_vars

\* A partially filled order is still Live at the venue and its remainder
\* is in the ledger when the shutdown begins.
C37_Witness ==
    /\ is_live
    /\ pc = "shutdown"
    /\ Untracked = {}
    /\ \E id \in RestingIds(state) :
          /\ id \in DOMAIN broker
          /\ broker[id].status = "Live"
          /\ Gt(broker[id].size_matched, Zero)

\* The targets compute_target_state gives for the trading state s and the
\* target's active positions.
TargetsFor(s, positions) ==
    ComputeTargetState(ComputeWeights(positions),
                       EffectiveCapital(s, BuildPriceMap(positions)),
                       config.copy_pct, config.max_trade_pct)

\* C38 -- No target trade is masked after the initial snapshot: the
\* startup seed of the dedup set puts in it only trades that the portfolio
\* snapshot of the initial replication already reflects, so that every
\* later trade is new to some poll cycle.  When the seed adds hashes after
\* an initial replication that computed targets, those targets are the
\* targets of the portfolio the target holds at that moment.
C38_SeedMasksOnlyReflected ==
    [][(pc = "seed_dedup" /\ seen_hashes' # seen_hashes
          /\ plan.targets # << >>) =>
          plan.targets = TargetsFor(plan.state,
                                    FetchActivePositions(trader.positions))]_vars

\* The value of the account at the given prices: the cash, the cost
\* reserved for the resting Buys and the holdings at their price.
AccountValue(s, prices) ==
    LET buys == SelectSeq(s.resting_orders, LAMBDA r : r.side = "Buy")
    IN  Add(Add(s.budget_remaining,
                SumSeq([i \in 1..Len(buys) |-> buys[i].cost_usd])),
            SumOn([a \in DOMAIN s.holdings |->
                      Mul(s.holdings[a].shares, prices[a])],
                  DOMAIN s.holdings))

\* The price maps that cover the holdings of the trading state.
CoveringPrices == [DOMAIN state.holdings -> {Quarter, Half, One}]

\* C39 -- P&L accounting identity: in every reachable state and for every
\* price map covering the holdings, the total_pnl of exit_summary equals
\* the value of the account (budget_remaining, cost of the resting Buys,
\* holdings at their price) less initial_budget.
C39_PnlIdentity ==
    \A prices \in CoveringPrices :
        ExitSummaryOf(state, prices).total_pnl
            = Sub(AccountValue(state, prices), state.initial_budget)

\* C40 -- Dry-run never overspends: in a dry run budget_remaining is >= 0
\* after the initial replication and after every poll cycle, whatever
\* portfolios and prices the target moves through, and the resting ledger
\* stays empty.
C40_DryRunNeverOverspends ==
    ~is_live =>
        /\ Ge(state.budget_remaining, Zero)
        /\ state.resting_orders = << >>

\* A dry run's poll cycle that follows an initial replication that bought:
\* it sold and bought, and less than $1.00 of the budget is left.
C40_Witness ==
    /\ ~is_live
    /\ call.op = "poll_cycle"
    /\ call.prev.op = "initial_replication"
    /\ Gt(call.before.total_spent, Zero)
    /\ HasSide(call.out, "Sell")
    /\ HasSide(call.out, "Buy")
    /\ Lt(state.budget_remaining, One)

====
